---- MODULE Spec2Model ----
(***************************************************************************)
(* Verification model of the research-helper literature-review pipeline.   *)
(*                                                                         *)
(* Part I  : ResearchWorkflowManager (deep_researcher/workflow_manager.py) *)
(*           with its four mock agents (rqa, kaa, axa, asa).  Python       *)
(*           objects are modelled as heap cells so that aliasing between   *)
(*           checkpoints is visible: `states` holds the WorkflowState      *)
(*           objects, `papers` the PaperResult objects, and history,       *)
(*           current_state and list payloads hold references (ids).        *)
(* Part II : SystematicReviewWorkflow.start_review, in its two versions.   *)
(*                                                                         *)
(* Text values are sequences of string fragments, so that the f-strings of *)
(* the agents are concatenations.  Scores are counted in tenths.           *)
(***************************************************************************)
EXTENDS Integers, Sequences, FiniteSets, TLC

VARIABLES history, current_state, states, papers, lastOp, ret, modifications,
          wf, pc, state, raised, failedStages, papersFound, kwIndex, nKeywords, caught,
          package, args, scrPc, all_batches, batch_number, range_i, output,
          execution, provider, tasks, gathered, workflow_run

mgrVars == <<history, current_state, states, papers, lastOp, ret, modifications>>
revVars == <<wf, pc, state, raised, failedStages, papersFound, kwIndex, nKeywords, caught>>
scrVars == <<package, args, scrPc, all_batches, batch_number, range_i, output>>
srchVars == <<execution, provider>>
fanVars == <<tasks, gathered>>
orchVars == <<workflow_run>>
\* what the steps of one part leave alone: the state of the other parts
notMgrVars == <<revVars, scrVars, srchVars, fanVars, orchVars>>
notRevVars == <<mgrVars, scrVars, srchVars, fanVars, orchVars>>
notScrVars == <<mgrVars, revVars, srchVars, fanVars, orchVars>>
notSrchVars == <<mgrVars, revVars, scrVars, fanVars, orchVars>>
notFanVars == <<mgrVars, revVars, scrVars, srchVars, orchVars>>
notOrchVars == <<mgrVars, revVars, srchVars, fanVars>>
vars == <<mgrVars, revVars, scrVars, srchVars, fanVars, orchVars>>

-----------------------------------------------------------------------------
(* Bounds of the model *)

\* cap on len(self.history)
MaxHistory == 4
\* cap on the number of results the search provider returns, and on the
\* number of papers handed to a review
MaxPapers == 2
\* cap on the number of keywords of a search strategy
MaxKeywords == 4

-----------------------------------------------------------------------------
(* Values *)

\* current_state = None
None == 0
\* PaperResult.relevance_score = None
NoScore == -1

Ideas == { <<"ai">> }

Max(a, b) == IF a >= b THEN a ELSE b
Min(a, b) == IF a <= b THEN a ELSE b

Range(s) == { s[i] : i \in DOMAIN s }

\* object identities: one spare WorkflowState cell for a checkpoint that is no
\* longer in history but still referenced
StateIds == 1..(MaxHistory + 1)
MaxResultLen == Max(MaxPapers, 2)
PaperObjIds == 1..((MaxHistory + 1) * MaxResultLen)

RECURSIVE SortedSeq(_)
SortedSeq(S) ==
  IF S = {} THEN <<>>
  ELSE LET m == CHOOSE x \in S : \A y \in S : x <= y
       IN <<m>> \o SortedSeq(S \ {m})

-----------------------------------------------------------------------------
(* Strings: str.lower(), the `in` substring test and str.startswith, on    *)
(* the fragments the model uses.  No needle spans two fragments.           *)

Lower(s) ==
  CASE s = "A Survey of " -> "a survey of "
    [] s = "Recent Advances in " -> "recent advances in "
    [] s = "Deep REVIEW of agents" -> "deep review of agents"
    [] s = "Graph Networks" -> "graph networks"
    [] s = "Surveying proofs" -> "surveying proofs"
    [] OTHER -> s

\* the needles among {"survey", "review"} that occur in the lower-case string s
Needles(s) ==
  CASE s = "a survey of " -> {"survey"}
    [] s = "survey" -> {"survey"}
    [] s = "review" -> {"review"}
    [] s = "deep review of agents" -> {"review"}
    [] s = "surveying proofs" -> {"survey"}
    [] s = "peer review survey" -> {"survey", "review"}
    [] OTHER -> {}

\* needle in text.lower()
InLower(needle, text) == \E i \in DOMAIN text : needle \in Needles(Lower(text[i]))

\* cat.startswith("cs.")
StartsWithCs(cat) == cat \in {"cs.AI", "cs.LG", "cs.CL"}

-----------------------------------------------------------------------------
(* models/base.py and the four agents *)

ResearchQuestion(mq, sq, ctx, vs) ==
  [type |-> "ResearchQuestion", main_question |-> mq, sub_questions |-> sq,
   context |-> ctx, validation_score |-> vs, user_approved |-> FALSE]

SearchStrategy(kw, cb, cs) ==
  [type |-> "SearchStrategy", keywords |-> kw, combinations |-> cb,
   constraints |-> cs, user_approved |-> FALSE]

PaperResult(id, title, abstract, metadata) ==
  [paper_id |-> id, title |-> title, abstract |-> abstract, metadata |-> metadata,
   relevance_score |-> NoScore, user_reviewed |-> FALSE]

\* a list payload: the list object holds references to PaperResult objects
PaperList(refs) == [type |-> "list", items |-> refs]

WorkflowState(step, data) == [step |-> step, data |-> data, modified_by_user |-> FALSE]

\* ResearchQuestionAgent.formulate: validation_score 0.85 is kept in hundredths
formulate(research_idea) ==
  ResearchQuestion(
    <<"What are the current state-of-the-art approaches in ">> \o research_idea \o <<"?">>,
    << <<"What are the key challenges in ">> \o research_idea \o <<"?">>,
       <<"How do different approaches to ">> \o research_idea
           \o <<" compare in terms of performance?">>,
       <<"What are the future research directions in ">> \o research_idea \o <<"?">> >>,
    [field |-> research_idea, timeframe |-> <<"current">>, scope |-> <<"comprehensive">>],
    85)

\* KeywordAnalysisAgent.analyze
analyze(questions) ==
  LET field == questions.context.field
  IN SearchStrategy(
       << field, <<"state-of-the-art">>, <<"survey">>, <<"review">>,
          <<"comparison">>, <<"benchmark">>, <<"evaluation">> >>,
       << <<"\"">> \o field \o <<"\" AND (\"state-of-the-art\" OR \"survey\")">>,
          <<"\"">> \o field \o <<"\" AND (\"comparison\" OR \"benchmark\")">>,
          <<"\"">> \o field \o <<"\" AND \"evaluation\"">> >>,
       [date_range |-> "last_5_years", categories |-> <<"cs.AI", "cs.LG">>,
        max_results |-> 100])

\* what the ArXiv client can yield for a query, in the provider's order
Catalog ==
  << PaperResult("2401.00001", <<"Deep REVIEW of agents">>, <<"We review agents.">>,
                 [authors |-> <<"A">>, categories |-> <<"cs.AI">>]),
     PaperResult("2401.00002", <<"Graph Networks">>, <<"We study graphs.">>,
                 [authors |-> <<"B">>, categories |-> <<"math.CO">>]),
     PaperResult("2401.00003", <<"Surveying proofs">>, <<"Proofs.">>,
                 [authors |-> <<"C">>, categories |-> <<"math.LO", "cs.LG">>]),
     PaperResult("2401.00004", <<"Kernels">>, <<"Kernels.">>,
                 [authors |-> <<"D">>, categories |-> <<>>]) >>

\* outcomes of self.client.results(search): n results, or an exception
ProviderOutcomes ==
  { [raises |-> FALSE, n |-> k] : k \in 0..Min(MaxPapers, Len(Catalog)) }
    \cup { [raises |-> TRUE, n |-> 0] }

\* the mock results of the except branch of ArxivSearchAgent.search
MockResults(strategy) ==
  << PaperResult("2301.01234", <<"A Survey of ">> \o strategy.keywords[1],
                 <<"This paper provides a comprehensive survey...">>,
                 [authors |-> <<"Author One", "Author Two">>, categories |-> <<"cs.AI">>]),
     PaperResult("2302.56789", <<"Recent Advances in ">> \o strategy.keywords[1],
                 <<"We present recent developments...">>,
                 [authors |-> <<"Author Three">>, categories |-> <<"cs.LG">>]) >>

\* ArxivSearchAgent.search: [exc, results]; exc = "" when the call returns
search(strategy, outcome) ==
  IF Len(strategy.combinations) = 0
  THEN [exc |-> "IndexError", results |-> <<>>]
  ELSE IF ~outcome.raises
  THEN [exc |-> "",
        results |-> SubSeq(Catalog, 1, Min(outcome.n, strategy.constraints.max_results))]
  ELSE IF Len(strategy.keywords) = 0
  THEN [exc |-> "IndexError", results |-> <<>>]
  ELSE [exc |-> "", results |-> MockResults(strategy)]

-----------------------------------------------------------------------------
(* AbstractScreeningAgent.screen (asa.py) *)

\* random.uniform(0, 0.5), in tenths, at the grid points the model draws
RandomTenths == {0, 5}

\* p.relevance_score or 0
ScoreOrZero(sc) == IF sc = NoScore \/ sc = 0 THEN 0 ELSE sc

\* the score asa.screen gives one paper, in tenths, for the random draw rnd
MockScore(paper, rnd) ==
  LET s1 == IF InLower("survey", paper.title) \/ InLower("review", paper.title)
            THEN 3 ELSE 0
      s2 == IF \E i \in DOMAIN paper.metadata.categories :
                   StartsWithCs(paper.metadata.categories[i])
            THEN 2 ELSE 0
  IN Min(10, Max(0, s1 + s2 + rnd))

\* sorted(..., key=lambda p: p.relevance_score or 0, reverse=True): stable, so
\* an element goes behind every element whose key is at least its own
InsertDesc(sorted, r, heap) ==
  LET k == Cardinality({ i \in DOMAIN sorted :
                ScoreOrZero(heap[sorted[i]].relevance_score)
                  >= ScoreOrZero(heap[r].relevance_score) })
  IN SubSeq(sorted, 1, k) \o <<r>> \o SubSeq(sorted, k + 1, Len(sorted))

RECURSIVE SortedDesc(_, _)
SortedDesc(refs, heap) ==
  IF refs = <<>> THEN <<>>
  ELSE InsertDesc(SortedDesc(SubSeq(refs, 1, Len(refs) - 1), heap), refs[Len(refs)], heap)

\* the heap after the scoring loop of screen: the PaperResult objects of the
\* list are written in place
ScreenHeap(refs, rnd, heap) ==
  [r \in DOMAIN heap |->
     IF \E i \in DOMAIN refs : refs[i] = r
     THEN LET i == CHOOSE j \in DOMAIN refs : refs[j] = r
          IN [heap[r] EXCEPT !.relevance_score = MockScore(heap[r], rnd[i])]
     ELSE heap[r]]

-----------------------------------------------------------------------------
(* Object heap: allocation, and release of what nothing references *)

NewStateId == CHOOSE i \in StateIds :
                 i \notin DOMAIN states /\ \A j \in StateIds : j < i => j \in DOMAIN states

\* the first n free PaperResult cells
NewPaperIds(n) == SubSeq(SortedSeq(PaperObjIds \ DOMAIN papers), 1, n)

LiveStates(st, h, c) == [i \in (Range(h) \cup {c}) \cap DOMAIN st |-> st[i]]

LivePapers(pp, st) ==
  [r \in { q \in DOMAIN pp : \E i \in DOMAIN st :
               st[i].data.type = "list" /\ q \in Range(st[i].data.items) } |-> pp[r]]

Returned(id) == [kind |-> "state", val |-> id, exc |-> ""]
ReturnedNone == [kind |-> "none", val |-> None, exc |-> ""]
Raised(e) == [kind |-> "raise", val |-> None, exc |-> e]

-----------------------------------------------------------------------------
(* The modifications dict a caller hands to modify_current_step.  The      *)
(* variable `modifications` holds the argument of the call just made; a    *)
(* call that takes none leaves the empty dict there.                       *)

U1 == <<"graph survey">>
U2 == <<"peer review survey">>

\* a modifications dict: the keys it holds and a value for each
Mod(keys, mq, sq, kw, cb, sc) ==
  [keys |-> keys, main_question |-> mq, sub_questions |-> sq, keywords |-> kw,
   combinations |-> cb, score |-> sc]

NoScores == [k \in {"2401.00001", "2401.00002", "2301.01234"} |-> 0]

\* modifications = {}
NoModifications == Mod({}, <<>>, <<>>, <<>>, <<>>, NoScores)

-----------------------------------------------------------------------------
(* ResearchWorkflowManager *)

\* save_state, with the heap pp the stage left behind.  WorkflowState.timestamp
\* is written here and never read; it is left out.
save_state(step, data, pp) ==
  LET id == NewStateId
      st == (id :> WorkflowState(step, data)) @@ states
  IN /\ Len(history) < MaxHistory
     /\ current_state' = id
     /\ history' = Append(history, id)
     /\ states' = LiveStates(st, history', current_state')
     /\ papers' = LivePapers(pp, states')
     /\ ret' = Returned(id)

\* start_workflow -> formulate_questions
start_workflow ==
  \E research_idea \in Ideas :
    /\ UNCHANGED notMgrVars
    /\ lastOp' = "start_workflow"
    /\ modifications' = NoModifications
    /\ save_state("questions", formulate(research_idea), papers)

\* continue_workflow, lines 57-58
continue_no_state ==
  /\ UNCHANGED notMgrVars
  /\ current_state = None
  /\ lastOp' = "continue_workflow"
  /\ modifications' = NoModifications
  /\ ret' = ReturnedNone
  /\ UNCHANGED <<history, current_state, states, papers>>

\* continue_workflow, lines 60-61 -> analyze_keywords
analyze_keywords ==
  /\ UNCHANGED notMgrVars
  /\ current_state # None
  /\ states[current_state].step = "questions"
  /\ lastOp' = "continue_workflow"
  /\ modifications' = NoModifications
  /\ save_state("keywords", analyze(states[current_state].data), papers)

\* faulty variant of search_papers: the checkpoint is saved before the search
\* is run, and stays when the search raises
search_papers_saved_first ==
  /\ UNCHANGED notMgrVars
  /\ current_state # None
  /\ states[current_state].step = "keywords"
  /\ lastOp' = "continue_workflow"
  /\ modifications' = NoModifications
  /\ \E outcome \in ProviderOutcomes :
       LET r == search(states[current_state].data, outcome)
           ids == NewPaperIds(Len(r.results))
           pp == [i \in Range(ids) |->
                    r.results[CHOOSE k \in DOMAIN ids : ids[k] = i]] @@ papers
       IN IF r.exc # ""
          THEN /\ Len(history) < MaxHistory
               /\ current_state' = NewStateId
               /\ history' = Append(history, NewStateId)
               /\ states' = (NewStateId :> WorkflowState("papers", PaperList(<<>>))) @@ states
               /\ papers' = papers
               /\ ret' = Raised(r.exc)
          ELSE save_state("papers", PaperList(ids), pp)

\* continue_workflow, lines 62-63 -> search_papers
search_papers ==
  /\ UNCHANGED notMgrVars
  /\ current_state # None
  /\ states[current_state].step = "keywords"
  /\ lastOp' = "continue_workflow"
  /\ modifications' = NoModifications
  /\ \E outcome \in ProviderOutcomes :
       LET r == search(states[current_state].data, outcome)
           ids == NewPaperIds(Len(r.results))
           pp == [i \in Range(ids) |->
                    r.results[CHOOSE k \in DOMAIN ids : ids[k] = i]] @@ papers
       IN IF r.exc # ""
          THEN /\ ret' = Raised(r.exc)
               /\ UNCHANGED <<history, current_state, states, papers>>
          ELSE save_state("papers", PaperList(ids), pp)

\* continue_workflow, lines 64-65 -> screen_abstracts
screen_abstracts ==
  /\ UNCHANGED notMgrVars
  /\ current_state # None
  /\ states[current_state].step = "papers"
  /\ lastOp' = "continue_workflow"
  /\ modifications' = NoModifications
  /\ LET refs == states[current_state].data.items
     IN \E rnd \in [DOMAIN refs -> RandomTenths] :
          LET pp == ScreenHeap(refs, rnd, papers)
          IN save_state("screening", PaperList(SortedDesc(refs, pp)), pp)

\* faulty variant of lines 66-67: the current checkpoint is returned where the
\* completion sentinel None is due
continue_complete_returns_current ==
  /\ UNCHANGED notMgrVars
  /\ current_state # None
  /\ states[current_state].step = "screening"
  /\ lastOp' = "continue_workflow"
  /\ modifications' = NoModifications
  /\ ret' = Returned(current_state)
  /\ UNCHANGED <<history, current_state, states, papers>>

\* continue_workflow, lines 66-67.  Line 69 is reached for no step save_state
\* is ever called with.
continue_complete ==
  /\ UNCHANGED notMgrVars
  /\ current_state # None
  /\ states[current_state].step = "screening"
  /\ lastOp' = "continue_workflow"
  /\ modifications' = NoModifications
  /\ ret' = ReturnedNone
  /\ UNCHANGED <<history, current_state, states, papers>>

continue_workflow ==
  \/ continue_no_state
  \/ analyze_keywords
  \/ search_papers
  \/ screen_abstracts
  \/ continue_complete

-----------------------------------------------------------------------------
(* modify_current_step *)

Modifications ==
  { Mod({"main_question", "sub_questions"}, U1, <<U2>>, <<>>, <<>>, NoScores),
    Mod({"keywords"}, U1, <<>>, <<>>, <<>>, NoScores),
    Mod({"combinations"}, U1, <<>>, <<>>, <<>>, NoScores),
    Mod({"keywords", "combinations"}, U1, <<>>, <<U1>>, <<U2>>, NoScores),
    Mod({"2401.00001", "2301.01234"}, U1, <<>>, <<>>, <<>>,
        [NoScores EXCEPT !["2401.00001"] = 9, !["2301.01234"] = 0]),
    Mod({"title"}, U1, <<>>, <<>>, <<>>, NoScores) }

\* faulty variant of modifications.get: the default is never used
GetAlways(m, key, default) == m[key]
\* modifications.get(key, default)
Get(m, key, default) == IF key \in m.keys THEN m[key] ELSE default

\* lines 77-89: the payload after the patch (a list payload is not itself written)
ModifiedData(data, m) ==
  IF data.type = "ResearchQuestion"
  THEN [data EXCEPT !.main_question = Get(m, "main_question", @),
                    !.sub_questions = Get(m, "sub_questions", @)]
  ELSE IF data.type = "SearchStrategy"
  THEN [data EXCEPT !.keywords = Get(m, "keywords", @),
                    !.combinations = Get(m, "combinations", @)]
  ELSE data

\* lines 84-89: the PaperResult objects of a list payload are written in place
ModifiedPapers(data, m, heap) ==
  IF data.type = "list"
  THEN [r \in DOMAIN heap |->
          IF r \in Range(data.items) /\ heap[r].paper_id \in m.keys
          THEN [heap[r] EXCEPT !.user_reviewed = TRUE,
                               !.relevance_score = m.score[heap[r].paper_id]]
          ELSE heap[r]]
  ELSE heap

\* faulty variant of line 91: the flag is not set
MarkModifiedForgotten(cp) == cp
\* line 91
MarkModified(cp) == [cp EXCEPT !.modified_by_user = TRUE]

modify_no_state ==
  /\ UNCHANGED notMgrVars
  /\ current_state = None
  /\ lastOp' = "modify_current_step"
  /\ modifications' \in Modifications
  /\ ret' = Raised("ValueError")
  /\ UNCHANGED <<history, current_state, states, papers>>

modify_state ==
  /\ UNCHANGED notMgrVars
  /\ current_state # None
  /\ lastOp' = "modify_current_step"
  /\ \E m \in Modifications :
       /\ modifications' = m
       /\ states' = [states EXCEPT
                       ![current_state] = MarkModified([@ EXCEPT !.data = ModifiedData(@, m)])]
       /\ papers' = ModifiedPapers(states[current_state].data, m, papers)
  /\ ret' = Returned(current_state)
  /\ UNCHANGED <<history, current_state>>

modify_current_step == modify_no_state \/ modify_state

-----------------------------------------------------------------------------
(* go_back *)

\* faulty variant of line 96: off by one
CanGoBackFromOne == Len(history) >= 1
\* line 96 negated: there is a checkpoint to go back to
CanGoBack == Len(history) >= 2

go_back_refused ==
  /\ UNCHANGED notMgrVars
  /\ ~CanGoBack
  /\ lastOp' = "go_back"
  /\ modifications' = NoModifications
  /\ ret' = ReturnedNone
  /\ UNCHANGED <<history, current_state, states, papers>>

\* faulty variant of line 99: pop(0)
PoppedFirst(h) == SubSeq(h, 2, Len(h))
\* self.history.pop()
Popped(h) == SubSeq(h, 1, Len(h) - 1)

\* faulty variant of line 100: current_state is not reassigned
PoppedCurrentStale(h) == current_state
\* self.current_state = self.history[-1], h being the history after the pop
PoppedCurrent(h) == h[Len(h)]

\* lines 99-101; history[-1] of an empty list raises IndexError after the pop
go_back_pop ==
  /\ UNCHANGED notMgrVars
  /\ CanGoBack
  /\ lastOp' = "go_back"
  /\ modifications' = NoModifications
  /\ history' = Popped(history)
  /\ IF history' = <<>>
     THEN /\ current_state' = current_state
          /\ ret' = Raised("IndexError")
     ELSE /\ current_state' = PoppedCurrent(history')
          /\ ret' = Returned(current_state')
  /\ states' = LiveStates(states, history', current_state')
  /\ papers' = LivePapers(papers, states')

-----------------------------------------------------------------------------
(* get_final_results *)

ReturnedList(refs) == [kind |-> "list", val |-> None, exc |-> "", items |-> refs]

\* faulty variant of line 105: the step is not looked at
FinalResultsAllowedAnyStep == current_state # None
\* line 105 negated
FinalResultsAllowed ==
  current_state # None /\ states[current_state].step = "screening"

\* faulty variant of lines 108-112: the payload is returned as it stands
FinalResultsUnsorted(refs, heap) == refs
\* lines 108-112
FinalResults(refs, heap) == SortedDesc(refs, heap)

\* lines 105-106
get_final_results_refused ==
  /\ UNCHANGED notMgrVars
  /\ ~FinalResultsAllowed
  /\ lastOp' = "get_final_results"
  /\ modifications' = NoModifications
  /\ ret' = Raised("ValueError")
  /\ UNCHANGED <<history, current_state, states, papers>>

\* lines 108-112.  A payload that is not a list of papers cannot be sorted by
\* relevance_score: AttributeError (iterating a dataclass: TypeError).
get_final_results_sorted ==
  /\ UNCHANGED notMgrVars
  /\ FinalResultsAllowed
  /\ lastOp' = "get_final_results"
  /\ modifications' = NoModifications
  /\ ret' = IF states[current_state].data.type = "list"
            THEN ReturnedList(FinalResults(states[current_state].data.items, papers))
            ELSE Raised("TypeError")
  /\ UNCHANGED <<history, current_state, states, papers>>

-----------------------------------------------------------------------------
(* Part I as a state machine: any caller, any order of calls *)

\* no screen_abstracts call is under way
InitScreenIdle ==
  /\ package = "none" /\ scrPc = "idle" /\ args = <<>> /\ all_batches = <<>>
  /\ batch_number = 0 /\ range_i = 0 /\ output = <<>>

\* no search_execution call and no screen_papers call is under way
InitSearchIdle ==
  /\ execution = [pc |-> "idle"]
  /\ provider = [available |-> 0, requests |-> 0, last |-> "none"]
  /\ tasks = <<>>
  /\ gathered = [kind |-> "idle"]

\* no execute_research_workflow call is under way
InitOrchestratorIdle == workflow_run = [pc |-> "idle"]

\* no ResearchWorkflowManager is in use
InitManagerIdle ==
  /\ history = <<>> /\ current_state = None /\ states = <<>> /\ papers = <<>>
  /\ lastOp = "none" /\ ret = ReturnedNone /\ modifications = NoModifications

InitReviewIdle ==
  /\ wf = "none" /\ pc = "idle" /\ state = "INITIALIZING" /\ raised = ""
  /\ failedStages = {} /\ papersFound = 0 /\ kwIndex = 0 /\ nKeywords = 0
  /\ caught = ""

\* ResearchWorkflowManager.__init__
Init ==
  /\ history = <<>>
  /\ current_state = None
  /\ states = <<>>
  /\ papers = <<>>
  /\ lastOp = "none"
  /\ ret = ReturnedNone
  /\ modifications = NoModifications
  /\ InitReviewIdle
  /\ InitScreenIdle
  /\ InitSearchIdle
  /\ InitOrchestratorIdle

Next ==
  \/ start_workflow
  \/ continue_no_state
  \/ analyze_keywords
  \/ search_papers
  \/ screen_abstracts
  \/ continue_complete
  \/ modify_no_state
  \/ modify_state
  \/ go_back_refused
  \/ go_back_pop
  \/ get_final_results_refused
  \/ get_final_results_sorted

Spec == Init /\ [][Next]_vars

-----------------------------------------------------------------------------
(* Part II: SystematicReviewWorkflow.start_review.                          *)
(* v1 is deep_researcher/research_agents/workflow.py, v2 is                 *)
(* research_agents/workflow.py.  One action runs from the completion of one *)
(* awaited call to the next await; the outcomes of the calls are inputs.    *)
(* wf: which version runs; pc: the call awaited; state: self.state;         *)
(* raised: the exception start_review raised to its caller ("" for none);   *)
(* failedStages: the calls that raised so far; papersFound: len(papers);    *)
(* kwIndex: keywords searched so far; nKeywords: len(strategy.keywords);     *)
(* caught: the exception that reached the except clause of start_review     *)
(* ("" for none).                                                           *)

Stages == {"question", "keywords", "refinement", "search", "screening"}

\* an agent call returns, times out, or fails otherwise
CallOutcomes == {"ok", "TimeoutError", "RuntimeError"}
\* WorkflowResult() and RefinementConfig(...) are validated on construction
ConstructOutcomes == {"ok", "ValidationError"}
\* push_to_firebase returns or raises
SinkOutcomes == {"ok", "FirebaseError"}

\* v1, lines 36-44: up to the await of formulate_question
v1_start_review ==
  /\ UNCHANGED notRevVars
  /\ pc = "idle"
  /\ wf' = "v1"
  /\ \E given \in 0..MaxPapers : papersFound' = given
  /\ state' = "QUESTION_FORMULATION"
  /\ pc' = "formulate_question"
  /\ UNCHANGED <<raised, failedStages, kwIndex, nKeywords, caught>>

\* v1, lines 102-105: except Exception: self.state = ERROR; raise
v1_fail(stage, exc) ==
  /\ caught' = exc
  /\ state' = "ERROR"
  /\ raised' = exc
  /\ failedStages' = failedStages \cup {stage}
  /\ pc' = "done"

\* v1, lines 44-49
v1_formulate_question ==
  /\ UNCHANGED notRevVars
  /\ wf = "v1" /\ pc = "formulate_question"
  /\ \E out \in CallOutcomes :
       IF out = "ok"
       THEN /\ state' = "KEYWORD_ANALYSIS"
            /\ pc' = "analyze"
            /\ UNCHANGED <<raised, failedStages, caught>>
       ELSE v1_fail("question", out)
  /\ UNCHANGED <<wf, papersFound, kwIndex, nKeywords>>

\* v1, lines 49-79 (papers given) or 49-100 (none given)
v1_analyze ==
  /\ UNCHANGED notRevVars
  /\ wf = "v1" /\ pc = "analyze"
  /\ \E out \in CallOutcomes :
       IF out = "ok"
       THEN /\ IF papersFound > 0
               THEN state' = "ABSTRACT_SCREENING" /\ pc' = "screen_papers"
               ELSE state' = "COMPLETED" /\ pc' = "done"
            /\ UNCHANGED <<raised, failedStages, caught>>
       ELSE v1_fail("keywords", out)
  /\ UNCHANGED <<wf, papersFound, kwIndex, nKeywords>>

\* v1, lines 79-100
v1_screen_papers ==
  /\ UNCHANGED notRevVars
  /\ wf = "v1" /\ pc = "screen_papers"
  /\ \E out \in CallOutcomes :
       IF out = "ok"
       THEN /\ state' = "COMPLETED" /\ pc' = "done"
            /\ UNCHANGED <<raised, failedStages, caught>>
       ELSE v1_fail("screening", out)
  /\ UNCHANGED <<wf, papersFound, kwIndex, nKeywords>>

\* v2, lines 233-249: self.state = ERROR; push_to_firebase; raise RuntimeError.
\* failed: the calls that raised; exc: the exception caught; sink: the outcome
\* of the handler's own push
v2_fail(failed, exc, sink) ==
  /\ caught' = exc
  /\ state' = "ERROR"
  /\ failedStages' = IF sink = "ok" THEN failed ELSE failed \cup {"persistence"}
  /\ raised' = IF sink = "ok" THEN "RuntimeError" ELSE sink
  /\ pc' = "done"

\* v2, lines 174-231, after the search loop: screening if there are papers,
\* else COMPLETED and the final push (final: its outcome)
v2_after_search(found, failed, final, sink) ==
  IF found > 0
  THEN /\ state' = "ABSTRACT_SCREENING"
       /\ pc' = "screen_papers"
       /\ failedStages' = failed
       /\ UNCHANGED <<raised, caught>>
  ELSE IF final = "ok"
  THEN /\ state' = "COMPLETED"
       /\ pc' = "done"
       /\ failedStages' = failed
       /\ UNCHANGED <<raised, caught>>
  ELSE v2_fail(failed \cup {"persistence"}, final, sink)

\* v2, lines 68-86: WorkflowResult(), the first push, up to formulate_question
v2_start_review ==
  /\ UNCHANGED notRevVars
  /\ pc = "idle"
  /\ wf' = "v2"
  /\ \E made \in ConstructOutcomes, push \in SinkOutcomes, sink \in SinkOutcomes :
       IF made # "ok"
       THEN v2_fail(failedStages, made, sink)
       ELSE IF push # "ok"
       THEN v2_fail(failedStages \cup {"persistence"}, push, sink)
       ELSE /\ state' = "QUESTION_FORMULATION"
            /\ pc' = "formulate_question"
            /\ UNCHANGED <<raised, failedStages, caught>>
  /\ UNCHANGED <<papersFound, kwIndex, nKeywords>>

\* v2, lines 86-101
v2_formulate_question ==
  /\ UNCHANGED notRevVars
  /\ wf = "v2" /\ pc = "formulate_question"
  /\ \E out \in CallOutcomes, push \in SinkOutcomes, sink \in SinkOutcomes :
       IF out # "ok"
       THEN v2_fail(failedStages \cup {"question"}, out, sink)
       ELSE IF push # "ok"
       THEN v2_fail(failedStages \cup {"persistence"}, push, sink)
       ELSE /\ state' = "KEYWORD_ANALYSIS"
            /\ pc' = "generate_strategy"
            /\ UNCHANGED <<raised, failedStages, caught>>
  /\ UNCHANGED <<wf, papersFound, kwIndex, nKeywords>>

\* v2, lines 101-127
v2_generate_strategy ==
  /\ UNCHANGED notRevVars
  /\ wf = "v2" /\ pc = "generate_strategy"
  /\ \E out \in CallOutcomes, push \in SinkOutcomes,
        config \in ConstructOutcomes, sink \in SinkOutcomes :
       IF out # "ok"
       THEN v2_fail(failedStages \cup {"keywords"}, out, sink)
       ELSE IF push # "ok"
       THEN v2_fail(failedStages \cup {"persistence"}, push, sink)
       ELSE IF config # "ok"
       THEN v2_fail(failedStages \cup {"refinement"}, config, sink)
       ELSE /\ state' = "KEYWORD_REFINEMENT"
            /\ pc' = "enhance_search_strategy"
            /\ UNCHANGED <<raised, failedStages, caught>>
  /\ UNCHANGED <<wf, papersFound, kwIndex, nKeywords>>

\* keywords[:3]
SearchedKeywords(n) == Min(n, 3)

\* v2, lines 127-155 (a keyword to search) or 127-231 (none).  The refinement
\* returns the strategy with its keywords re-ordered: nk of them.
v2_enhance_search_strategy ==
  /\ UNCHANGED notRevVars
  /\ wf = "v2" /\ pc = "enhance_search_strategy"
  /\ \E nk \in 0..MaxKeywords, push \in SinkOutcomes,
        final \in SinkOutcomes, sink \in SinkOutcomes :
       /\ nKeywords' = nk
       /\ IF push # "ok"
          THEN v2_fail(failedStages \cup {"persistence"}, push, sink)
          ELSE IF SearchedKeywords(nk) > 0
          THEN /\ state' = "PAPER_SEARCH"
               /\ pc' = "search"
               /\ UNCHANGED <<raised, failedStages, caught>>
          ELSE v2_after_search(0, failedStages, final, sink)
  /\ UNCHANGED <<wf, papersFound, kwIndex>>

\* v2, lines 145-172, one keyword: the tool call raises, or returns batches
\* whose papers are appended before each batch is pushed; any exception of
\* the loop body is logged and the loop goes on (lines 170-172)
v2_search_keyword ==
  /\ UNCHANGED notRevVars
  /\ wf = "v2" /\ pc = "search"
  /\ kwIndex' = kwIndex + 1
  /\ \E out \in CallOutcomes, hits \in 0..MaxPapers, push \in SinkOutcomes,
        final \in SinkOutcomes, sink \in SinkOutcomes :
       LET found == IF out = "ok" THEN papersFound + hits ELSE papersFound
           failed == IF out # "ok" THEN failedStages \cup {"search"}
                     ELSE IF hits > 0 /\ push # "ok"
                     THEN failedStages \cup {"persistence"}
                     ELSE failedStages
       IN /\ papersFound' = found
          /\ IF kwIndex' < SearchedKeywords(nKeywords)
             THEN /\ pc' = "search"
                  /\ failedStages' = failed
                  /\ UNCHANGED <<state, raised, caught>>
             ELSE v2_after_search(found, failed, final, sink)
  /\ UNCHANGED <<wf, nKeywords>>

\* v2, lines 190-231
v2_screen_papers ==
  /\ UNCHANGED notRevVars
  /\ wf = "v2" /\ pc = "screen_papers"
  /\ \E out \in CallOutcomes, push \in SinkOutcomes,
        final \in SinkOutcomes, sink \in SinkOutcomes :
       IF out # "ok"
       THEN v2_fail(failedStages \cup {"screening"}, out, sink)
       ELSE IF push # "ok" \/ final # "ok"
       THEN v2_fail(failedStages \cup {"persistence"}, IF push # "ok" THEN push ELSE final, sink)
       ELSE /\ state' = "COMPLETED"
            /\ pc' = "done"
            /\ UNCHANGED <<raised, failedStages, caught>>
  /\ UNCHANGED <<wf, papersFound, kwIndex, nKeywords>>

\* SystematicReviewWorkflow.__init__
InitReview ==
  /\ InitManagerIdle
  /\ InitOrchestratorIdle
  /\ InitReviewIdle
  /\ InitScreenIdle
  /\ InitSearchIdle

NextReview ==
  \/ v1_start_review
  \/ v1_formulate_question
  \/ v1_analyze
  \/ v1_screen_papers
  \/ v2_start_review
  \/ v2_formulate_question
  \/ v2_generate_strategy
  \/ v2_enhance_search_strategy
  \/ v2_search_keyword
  \/ v2_screen_papers

SpecReview == InitReview /\ [][NextReview]_vars

-----------------------------------------------------------------------------
(* Properties of ResearchWorkflowManager *)

StepOrder == <<"questions", "keywords", "papers", "screening">>

\* what a checkpoint shows to a reader: its fields, with the documents of a
\* list payload read through their references
CheckpointValue(st, pp, id) ==
  [step |-> st[id].step,
   modified_by_user |-> st[id].modified_by_user,
   data |-> IF st[id].data.type = "list"
            THEN [type |-> "list",
                  items |-> [i \in DOMAIN st[id].data.items |-> pp[st[id].data.items[i]]]]
            ELSE st[id].data]

HistorySteps == [i \in DOMAIN history |-> states[history[i]].step]

\* C1: once start_workflow has succeeded, after any call the history is
\* non-empty and current_state is its last element.
C1_CurrentIsLastOfHistory ==
  [][(history # <<>> \/ lastOp' = "start_workflow")
       => (history' # <<>> /\ current_state' = history'[Len(history')])]_vars

C1_Witness ==
  /\ lastOp = "go_back" /\ ret.kind = "state"
  /\ Len(history) = 2 /\ current_state = history[2]

\* C2: continue_workflow only appends: every checkpoint already in the history
\* stays in its place and shows the same step, flag and payload, documents'
\* relevance_score and user_reviewed included.
C2_AdvanceOnlyAppends ==
  [][lastOp' = "continue_workflow"
       => \A i \in DOMAIN history :
            /\ i \in DOMAIN history' /\ history'[i] = history[i]
            /\ CheckpointValue(states', papers', history[i])
                 = CheckpointValue(states, papers, history[i])]_vars

\* C3: after every successful start_workflow the history has length exactly 1,
\* and its only checkpoint has step questions and is the current one.
C3_StartResetsHistory ==
  lastOp = "start_workflow"
    => /\ Len(history) = 1
       /\ states[history[1]].step = "questions"
       /\ current_state = history[1]

\* C4: start_workflow produces a questions checkpoint; each continue_workflow
\* whose stage succeeds appends exactly one new checkpoint, whose step is the
\* successor of the current step in questions, keywords, papers, screening;
\* at step screening it returns None and appends nothing.
C4_AdvanceVisitsStepsInOrder ==
  [][/\ lastOp' = "start_workflow" => states'[current_state'].step = "questions"
     /\ (lastOp' = "continue_workflow" /\ current_state # None /\ ret'.kind # "raise")
          => LET step == states[current_state].step
                 k == CHOOSE j \in DOMAIN StepOrder : StepOrder[j] = step
             IN IF step = "screening"
                THEN ret' = ReturnedNone /\ history' = history
                       /\ current_state' = current_state
                ELSE /\ ret'.kind = "state"
                     /\ ret'.val \notin Range(history)
                     /\ history' = Append(history, ret'.val)
                     /\ current_state' = ret'.val
                     /\ states'[ret'.val].step = StepOrder[k + 1]]_vars

C4_Witness ==
  /\ lastOp = "continue_workflow" /\ ret = ReturnedNone
  /\ HistorySteps = StepOrder

\* C5: go_back on a history of fewer than 2 checkpoints returns None and
\* leaves the history, the current checkpoint and every object unchanged.
C5_RewindAtRootRefused ==
  [][(lastOp' = "go_back" /\ Len(history) < 2)
       => /\ ret' = ReturnedNone
          /\ history' = history /\ current_state' = current_state
          /\ states' = states /\ papers' = papers]_vars

C5_Witness ==
  /\ lastOp = "go_back" /\ ret = ReturnedNone
  /\ Len(history) = 1 /\ current_state = history[1]

\* C6: go_back on a history of n >= 2 checkpoints removes exactly the last
\* one, leaves the first n-1 unchanged and in order, makes checkpoint n-1
\* current and returns it; the first checkpoint of the history is never removed.
C6_RewindPopsLast ==
  [][lastOp' = "go_back"
       => /\ Len(history) >= 2
             => /\ history' = SubSeq(history, 1, Len(history) - 1)
                /\ current_state' = history[Len(history) - 1]
                /\ ret' = Returned(history[Len(history) - 1])
                /\ \A i \in 1..(Len(history) - 1) :
                     CheckpointValue(states', papers', history[i])
                       = CheckpointValue(states, papers, history[i])
          /\ history # <<>> => (history' # <<>> /\ history'[1] = history[1])]_vars

C6_Witness ==
  /\ lastOp = "go_back" /\ ret.kind = "state"
  /\ Len(history) = 3 /\ ret.val = history[3]
  /\ HistorySteps = <<"questions", "keywords", "papers">>

\* C7: once a stage invoked by continue_workflow has raised, the next
\* continue_workflow fails with an IllegalStateError and the next
\* modify_current_step is refused, both leaving the workflow as it was.
C7_ErrorRefusesAdvanceAndModify ==
  [][(lastOp = "continue_workflow" /\ ret.kind = "raise")
       => /\ lastOp' = "continue_workflow"
             => /\ ret' = Raised("IllegalStateError")
                /\ UNCHANGED <<history, current_state, states, papers>>
          /\ lastOp' = "modify_current_step"
             => /\ ret'.kind = "raise"
                /\ UNCHANGED <<history, current_state, states, papers>>]_vars

StateOrder ==
  <<"INITIALIZING", "QUESTION_FORMULATION", "KEYWORD_ANALYSIS", "KEYWORD_REFINEMENT",
    "PAPER_SEARCH", "ABSTRACT_SCREENING", "COMPLETED">>

StateRank(s) == CHOOSE k \in DOMAIN StateOrder : StateOrder[k] = s

C10_ModifyMarksAndStays ==
  [][(lastOp' = "modify_current_step" /\ ret'.kind = "state")
       => /\ states'[current_state'].modified_by_user
          /\ current_state' = current_state
          /\ ret'.val = current_state
          /\ history' = history
          /\ \A i \in DOMAIN history :
               states'[history[i]].step = states[history[i]].step]_vars

C10_Witness ==
  /\ lastOp = "modify_current_step" /\ ret.kind = "state"
  /\ Len(history) >= 2
  /\ states[current_state].modified_by_user
  /\ ~states[history[1]].modified_by_user

-----------------------------------------------------------------------------
(* modify_current_step and get_final_results, seen by their caller *)

\* the value a key of the dict m gives a field, the old value where m has no such key
Patched(m, key, old) == IF key \in m.keys THEN m[key] ELSE old

\* the keys modify_current_step reads for a payload
RecognizedKeys(data, heap) ==
  IF data.type = "ResearchQuestion" THEN {"main_question", "sub_questions"}
  ELSE IF data.type = "SearchStrategy" THEN {"keywords", "combinations"}
  ELSE { heap[r].paper_id : r \in Range(data.items) }

\* C11: round trip of modify.  After modify_current_step(modifications) has
\* returned, the payload of the current checkpoint shows every field the
\* dict names with the dict's value and every other field with its old value;
\* in a list payload exactly the papers whose paper_id is a key of the dict
\* carry the given relevance_score and user_reviewed, every other paper is
\* as it was.
C11_ModifyRoundTrip ==
  [][(lastOp' = "modify_current_step" /\ ret'.kind = "state")
       => LET old == states[current_state].data
              new == states'[current_state'].data
              m == modifications'
          IN /\ new.type = old.type
             /\ old.type = "ResearchQuestion"
                  => new = [old EXCEPT
                              !.main_question = Patched(m, "main_question", @),
                              !.sub_questions = Patched(m, "sub_questions", @)]
             /\ old.type = "SearchStrategy"
                  => new = [old EXCEPT
                              !.keywords = Patched(m, "keywords", @),
                              !.combinations = Patched(m, "combinations", @)]
             /\ old.type = "list"
                  => /\ new = old
                     /\ \A r \in Range(old.items) :
                          IF papers[r].paper_id \in m.keys
                          THEN papers'[r] =
                                 [papers[r] EXCEPT
                                    !.relevance_score = m.score[papers[r].paper_id],
                                    !.user_reviewed = TRUE]
                          ELSE papers'[r] = papers[r]]_vars

\* a list payload re-read after a modify that rated one of its two papers
C11_Witness ==
  /\ lastOp = "modify_current_step"
  /\ ret.kind = "state"
  /\ states[current_state].data.type = "list"
  /\ \E r1, r2 \in Range(states[current_state].data.items) :
       /\ papers[r1].paper_id \in modifications.keys
       /\ papers[r1].user_reviewed
       /\ papers[r1].relevance_score = 9
       /\ papers[r2].paper_id \notin modifications.keys
       /\ ~papers[r2].user_reviewed

\* C12: modify_current_step fails with a ValidationError whenever the dict
\* names a field that is not defined for the type of the current payload.
C12_UnknownFieldRejected ==
  (/\ lastOp = "modify_current_step"
   /\ current_state # None
   /\ modifications.keys \ RecognizedKeys(states[current_state].data, papers) # {})
    => (ret.kind = "raise" /\ ret.exc = "ValidationError")

\* C13: get_final_results is valid only at the screening step; with no
\* checkpoint, or at questions, keywords or papers (after a go_back from
\* screening too), it raises and returns no papers.
C13_FinalResultsOnlyAtScreening ==
  (/\ lastOp = "get_final_results"
   /\ (current_state = None \/ states[current_state].step # "screening"))
    => ret.kind = "raise"

\* get_final_results refused at a papers checkpoint whose papers the
\* screening has already scored: the screening checkpoint was left by go_back
C13_Witness ==
  /\ lastOp = "get_final_results"
  /\ ret.kind = "raise"
  /\ current_state # None
  /\ states[current_state].step = "papers"
  /\ \E r \in Range(states[current_state].data.items) :
       papers[r].relevance_score # NoScore /\ ~papers[r].user_reviewed

\* place of the reference r in the sequence refs
IndexOf(refs, r) == CHOOSE i \in DOMAIN refs : refs[i] = r

\* C14: at the screening step get_final_results returns a permutation of the
\* checkpoint's papers in descending relevance_score (no score counts as 0),
\* papers of equal score in the order they have in the checkpoint.
C14_FinalResultsSortedStable ==
  (lastOp = "get_final_results" /\ ret.kind = "list")
    => LET data == states[current_state].data.items
           out == ret.items
           key(r) == IF papers[r].relevance_score = NoScore
                     THEN 0 ELSE papers[r].relevance_score
       IN /\ Len(out) = Len(data)
          /\ \A r \in Range(data) :
               Cardinality({ i \in DOMAIN out : out[i] = r })
                 = Cardinality({ i \in DOMAIN data : data[i] = r })
          /\ \A i, j \in DOMAIN out :
               i < j => /\ key(out[i]) >= key(out[j])
                        /\ key(out[i]) = key(out[j])
                             => IndexOf(data, out[i]) < IndexOf(data, out[j])

\* the returned order differs from the checkpoint's: a user rating has put
\* the first paper of the screening checkpoint below the second
C14_Witness ==
  /\ lastOp = "get_final_results"
  /\ ret.kind = "list"
  /\ Len(ret.items) = 2
  /\ ret.items # states[current_state].data.items

-----------------------------------------------------------------------------
(* Part III: the heuristic screening tool, screen_abstracts, in its two    *)
(* versions: package "deep_researcher" is                                   *)
(* deep_researcher/research_agents/abstract_screening_agent.py, package     *)
(* "research_agents" is research_agents/abstract_screening_agent.py.        *)
(* A str is a sequence of one-character strings, so that lower(), the `in`  *)
(* substring test and split() are computed on the characters.               *)

\* cap on len(args.papers)
MaxDocs == 3
\* cap on args.batch_size
MaxBatchSize == 3

UpperChars == <<"A", "B", "C", "D", "E", "F", "G", "H", "I", "J", "K", "L", "M", "N", "O", "P", "Q", "R", "S", "T", "U", "V", "W", "X", "Y", "Z">>
LowerChars == <<"a", "b", "c", "d", "e", "f", "g", "h", "i", "j", "k", "l", "m", "n", "o", "p", "q", "r", "s", "t", "u", "v", "w", "x", "y", "z">>

\* str.lower()
str_lower(s) ==
  [k \in DOMAIN s |->
     IF \E u \in DOMAIN UpperChars : UpperChars[u] = s[k]
     THEN LowerChars[CHOOSE u \in DOMAIN UpperChars : UpperChars[u] = s[k]]
     ELSE s[k]]

\* needle in s
str_in(needle, s) ==
  \E k \in 0..(Len(s) - Len(needle)) : SubSeq(s, k + 1, k + Len(needle)) = needle

\* str.split(): the maximal runs of non-blank characters, in order.  A word
\* starts where a non-blank follows a blank or opens the string, and ends
\* before the next blank.
str_split(s) ==
  LET starts == { k \in DOMAIN s : s[k] # " " /\ (k = 1 \/ s[k - 1] = " ") }
      end_of(k) == CHOOSE e \in k..Len(s) :
                     /\ \A j \in k..e : s[j] # " "
                     /\ e = Len(s) \/ s[e + 1] = " "
  IN [p \in 1..Cardinality(starts) |->
        LET k == CHOOSE x \in starts : Cardinality({ y \in starts : y < x }) = p - 1
        IN SubSeq(s, k, end_of(k))]

\* class RelevanceScore(Enum)
RelevanceScore == [HIGH |-> 3, MEDIUM |-> 2, LOW |-> 1, IRRELEVANT |-> 0]

\* class MethodologyType(Enum), in declaration order
MethodologyType ==
  <<"EXPERIMENTAL", "THEORETICAL", "REVIEW", "CASE_STUDY", "SURVEY",
    "META_ANALYSIS", "OTHER">>

methodology_keywords ==
  [EXPERIMENTAL |-> << <<"e", "x", "p", "e", "r", "i", "m", "e", "n", "t">>,
                     <<"t", "r", "i", "a", "l">>,
                     <<"m", "e", "a", "s", "u", "r", "e", "m", "e", "n", "t">> >>,
   THEORETICAL |-> << <<"t", "h", "e", "o", "r", "y">>,
                    <<"f", "r", "a", "m", "e", "w", "o", "r", "k">>,
                    <<"m", "o", "d", "e", "l">> >>,
   REVIEW |-> << <<"r", "e", "v", "i", "e", "w">>,
               <<"s", "u", "r", "v", "e", "y">>,
               <<"o", "v", "e", "r", "v", "i", "e", "w">> >>,
   CASE_STUDY |-> << <<"c", "a", "s", "e", " ", "s", "t", "u", "d", "y">>,
                   <<"c", "a", "s", "e", "-", "s", "t", "u", "d", "y">>,
                   <<"c", "a", "s", "e", " ", "a", "n", "a", "l", "y", "s", "i", "s">> >>,
   SURVEY |-> << <<"s", "u", "r", "v", "e", "y">>,
               <<"q", "u", "e", "s", "t", "i", "o", "n", "n", "a", "i", "r", "e">>,
               <<"i", "n", "t", "e", "r", "v", "i", "e", "w">> >>,
   META_ANALYSIS |-> << <<"m", "e", "t", "a", "-", "a", "n", "a", "l", "y", "s", "i", "s">>,
                      <<"m", "e", "t", "a", " ", "a", "n", "a", "l", "y", "s", "i", "s">>,
                      <<"s", "y", "s", "t", "e", "m", "a", "t", "i", "c", " ", "r", "e", "v", "i", "e", "w">> >>]

\* a local variable: value is computed once and Body works on the result
Once(value, Body(_)) == CHOOSE r \in { Body(x) : x \in {value} } : TRUE

\* lines 117-123, scores being the dict of line 109 after the loops: the dict
\* is in the enum's order, OTHER stays 0
methodology_of_scores(scores) ==
  LET max_score == CHOOSE x \in { scores[m] : m \in DOMAIN scores } :
                     \A m \in DOMAIN scores : scores[m] <= x
  IN IF max_score = 0 THEN "OTHER"
     ELSE MethodologyType[CHOOSE k \in 1..6 :
            /\ scores[MethodologyType[k]] = max_score
            /\ \A j \in 1..(k - 1) : scores[MethodologyType[j]] # max_score]

\* lines 109-115: the keywords of a methodology that occur in the abstract
methodology_scores(abstract_lower) ==
  [m \in DOMAIN methodology_keywords |->
     Cardinality({ k \in DOMAIN methodology_keywords[m] :
                     str_in(methodology_keywords[m][k], abstract_lower) })]

evaluate_methodology(abstract) ==
  Once(methodology_scores(str_lower(abstract)), methodology_of_scores)

\* faulty variant of lines 137 and 145: the title is not searched
KeywordFoundInAbstract(keyword, abstract_lower, title_lower) ==
  str_in(str_lower(keyword), abstract_lower)
\* lines 137 and 145
KeywordFound(keyword, abstract_lower, title_lower) ==
  str_in(str_lower(keyword), abstract_lower) \/ str_in(str_lower(keyword), title_lower)

\* faulty variant of line 146: an excluded keyword that is found adds a point
calculate_relevance_score_rewarding(paper, criteria) ==
  LET abstract_lower == str_lower(paper.abstract)
      title_lower == str_lower(paper.title)
      required_found ==
        Cardinality({ k \in DOMAIN criteria.required_keywords :
          KeywordFound(criteria.required_keywords[k], abstract_lower, title_lower) })
      den == IF criteria.required_keywords # <<>>
             THEN Len(criteria.required_keywords) ELSE 1
      keyword_ratio == IF criteria.required_keywords # <<>> THEN required_found ELSE 1
      excluded_found ==
        Cardinality({ k \in DOMAIN criteria.excluded_keywords :
          KeywordFound(criteria.excluded_keywords[k], abstract_lower, title_lower) })
      paper_methodology == evaluate_methodology(paper.abstract)
      match == IF paper_methodology \in Range(criteria.methodology_types) THEN 1 ELSE 0
      score == keyword_ratio * 2 + excluded_found * den + match * den
  IN IF 2 * score >= 5 * den THEN "HIGH"
     ELSE IF 2 * score >= 3 * den THEN "MEDIUM"
     ELSE IF 2 * score >= den THEN "LOW"
     ELSE "IRRELEVANT"
\* calculate_relevance_score, for a paper that has a title and an abstract.
\* score is a float there; here it is kept as the exact fraction score / den,
\* den being len(required_keywords) (1 when there are none): the thresholds
\* 2.5, 1.5 and 0.5 are compared after multiplying both sides by 2 * den.
calculate_relevance_score(paper, criteria) ==
  LET abstract_lower == str_lower(paper.abstract)
      title_lower == str_lower(paper.title)
      required_found ==
        Cardinality({ k \in DOMAIN criteria.required_keywords :
          KeywordFound(criteria.required_keywords[k], abstract_lower, title_lower) })
      den == IF criteria.required_keywords # <<>>
             THEN Len(criteria.required_keywords) ELSE 1
      keyword_ratio == IF criteria.required_keywords # <<>> THEN required_found ELSE 1
      excluded_found ==
        Cardinality({ k \in DOMAIN criteria.excluded_keywords :
          KeywordFound(criteria.excluded_keywords[k], abstract_lower, title_lower) })
      paper_methodology == evaluate_methodology(paper.abstract)
      match == IF paper_methodology \in Range(criteria.methodology_types) THEN 1 ELSE 0
      score == keyword_ratio * 2 - excluded_found * den + match * den
  IN IF 2 * score >= 5 * den THEN "HIGH"
     ELSE IF 2 * score >= 3 * den THEN "MEDIUM"
     ELSE IF 2 * score >= den THEN "LOW"
     ELSE "IRRELEVANT"

\* class ThemeIdentification; confidence is kept as the pair <<numerator, denominator>>
ThemeIdentification(theme_name, keywords, frequency, theme_papers, confidence) ==
  [theme_name |-> theme_name, keywords |-> keywords, frequency |-> frequency,
   papers |-> theme_papers, confidence |-> confidence]

\* identify_themes, lines 170-171: the words of one paper
paper_words(paper) ==
  str_split(str_lower(paper.title \o <<" ">> \o paper.abstract))

\* identify_themes, lines 176-185: one word of one paper enters the dict themes,
\* kept as the sequence of its entries in insertion order
AddWord(themes, word, arxiv_id) ==
  IF \E k \in DOMAIN themes : themes[k].word = word
  THEN LET k == CHOOSE j \in DOMAIN themes : themes[j].word = word
       IN [themes EXCEPT ![k] =
             [@ EXCEPT !.count = @ + 1,
                       !.papers = IF arxiv_id \in Range(@) THEN @ ELSE Append(@, arxiv_id)]]
  ELSE Append(themes, [word |-> word, count |-> 1, papers |-> <<arxiv_id>>,
                       keywords |-> <<word>>])

\* lines 174-185: the loop over the words of one paper
RECURSIVE AddWords(_, _, _)
AddWords(themes, words, arxiv_id) ==
  IF words = <<>> THEN themes
  ELSE Once(IF Len(Head(words)) > 4 THEN AddWord(themes, Head(words), arxiv_id)
            ELSE themes,
            LAMBDA added : AddWords(added, Tail(words), arxiv_id))

\* lines 168-185: the loop over the papers
RECURSIVE CollectThemes(_, _)
CollectThemes(themes, batch) ==
  IF batch = <<>> THEN themes
  ELSE Once(paper_words(Head(batch)),
            LAMBDA words :
              Once(AddWords(themes, words, Head(batch).arxiv_id),
                   LAMBDA added : CollectThemes(added, Tail(batch))))

\* faulty variant of a reverse sort: equal keys come out in reverse order
sorted_reverse_unstable(keys) ==
  [p \in DOMAIN keys |->
     CHOOSE k \in DOMAIN keys :
       p = 1 + Cardinality({ j \in DOMAIN keys : keys[j] > keys[k] })
             + Cardinality({ j \in DOMAIN keys : j > k /\ keys[j] = keys[k] })]
\* sorted(..., reverse=True) and list.sort(reverse=True) on the keys: the
\* places of the elements in the sorted order.  The sort is stable: an element
\* comes after every element of greater key and every earlier element of equal key.
sorted_reverse(keys) ==
  [p \in DOMAIN keys |->
     CHOOSE k \in DOMAIN keys :
       p = 1 + Cardinality({ j \in DOMAIN keys : keys[j] > keys[k] })
             + Cardinality({ j \in DOMAIN keys : j < k /\ keys[j] = keys[k] })]

\* lines 188-197: the entries with count > 1, as ThemeIdentification
\* objects; n is len(papers)
theme_objects_of(themes, n) ==
  Once(SelectSeq(themes, LAMBDA d : d.count > 1),
       LAMBDA kept :
         [k \in DOMAIN kept |->
            ThemeIdentification(kept[k].word, kept[k].keywords, kept[k].count,
                                kept[k].papers, <<Min(kept[k].count, n), n>>)])

\* faulty variant of line 199: the first 10 themes in dict order, not sorted
top_themes_unsorted(theme_objects) ==
  [p \in 1..Min(10, Len(theme_objects)) |-> theme_objects[p]]
\* line 199: sorted(theme_objects, key=frequency, reverse=True)[:10]
top_themes(theme_objects) ==
  Once(sorted_reverse([k \in DOMAIN theme_objects |-> theme_objects[k].frequency]),
       LAMBDA order :
         [p \in 1..Min(10, Len(theme_objects)) |-> theme_objects[order[p]]])

identify_themes(batch) ==
  Once(CollectThemes(<<>>, batch),
       LAMBDA themes : Once(theme_objects_of(themes, Len(batch)), top_themes))

-----
(* The arguments of a call.  A paper is a dict: `keys` are the keys it has. *)

Paper(keys, arxiv_id, title, abstract) ==
  [keys |-> keys, arxiv_id |-> arxiv_id, title |-> title, abstract |-> abstract]

Pool ==
  { Paper({"arxiv_id", "title", "abstract"}, "a1",
          <<"Q", "u", "a", "n", "t", "u", "m", " ", "A", "I">>,
          <<"A", " ", "r", "e", "v", "i", "e", "w", " ", "o", "f", " ", "q", "u", "a", "n", "t", "u", "m", " ", "m", "o", "d", "e", "l", "s">>),
    Paper({"arxiv_id", "title", "abstract"}, "a2",
          <<"G", "r", "a", "p", "h", " ", "t", "r", "i", "a", "l">>,
          <<"A", "n", " ", "e", "x", "p", "e", "r", "i", "m", "e", "n", "t", " ", "o", "n", " ", "g", "r", "a", "p", "h", " ", "d", "a", "t", "a">>),
    Paper({"arxiv_id", "title", "abstract"}, "a3",
          <<"R", "a", "i", "n">>,
          <<"Q", "u", "a", "n", "t", "u", "m", " ", "s", "u", "r", "v", "e", "y", " ", "o", "v", "e", "r", "v", "i", "e", "w">>),
    Paper({"arxiv_id", "title"}, "a4",
          <<"N", "o", "t", "e", "s">>,
          <<>>) }

ScreeningCriteria(required_keywords, excluded_keywords, methodology_types) ==
  [required_keywords |-> required_keywords, excluded_keywords |-> excluded_keywords,
   methodology_types |-> methodology_types, min_relevance_score |-> "LOW"]

CriteriaSet ==
  { ScreeningCriteria(<< <<"Q", "u", "a", "n", "t", "u", "m">>, <<"a", "i">> >>, <<>>, <<"REVIEW">>),
    ScreeningCriteria(<<>>, << <<"t", "r", "i", "a", "l">> >>, <<>>),
    ScreeningCriteria(<< <<"q", "u", "a", "n", "t", "u", "m">>, <<"a", "i">>,
                         <<"g", "r", "a", "p", "h">>, <<"m", "o", "d", "e", "l">> >>,
                      << <<"s", "u", "r", "v", "e", "y">> >>,
                      <<"THEORETICAL", "EXPERIMENTAL">>) }

\* class AbstractScreeningArgs
AbstractScreeningArgs(arg_papers, criteria, batch_size) ==
  [papers |-> arg_papers, criteria |-> criteria, batch_size |-> batch_size]

ArgsSet ==
  { AbstractScreeningArgs(ps, c, b) :
      ps \in UNION { [1..n -> Pool] : n \in 0..MaxDocs },
      c \in CriteriaSet, b \in 0..MaxBatchSize }

-----------------------------------------------------------------------------
(* screen_abstracts *)

\* MethodologyType.value
methodology_value ==
  [EXPERIMENTAL |-> "experimental", THEORETICAL |-> "theoretical", REVIEW |-> "review",
   CASE_STUDY |-> "case_study", SURVEY |-> "survey", META_ANALYSIS |-> "meta_analysis"]
    @@ ("OTHER" :> "other")

\* paper['abstract'] or paper['title'] raises KeyError
RaisesKeyError(paper) == ~({"title", "abstract"} \subseteq paper.keys)

\* faulty variant of line 210: the slice overlaps the next batch by one paper
batch_papers_overlapping(arg_papers, start, batch_size) ==
  SubSeq(arg_papers, start + 1, Min(start + batch_size + 1, Len(arg_papers)))
\* args.papers[i:i + args.batch_size]
batch_papers_of(arg_papers, start, batch_size) ==
  SubSeq(arg_papers, start + 1, Min(start + batch_size, Len(arg_papers)))

\* deep_researcher, lines 218-230: the result as first built.  Scores that are
\* floats in the code are counted in tenths.
ScreeningResultOf(paper, relevance_score, methodology) ==
  [paper_id |-> paper.arxiv_id, title |-> paper.title,
   relevance_score |-> relevance_score, methodology_type |-> methodology,
   inclusion_reasons |-> <<>>, exclusion_reasons |-> <<>>,
   identified_themes |-> <<>>, priority_rank |-> 0,
   detailed_review_flag |-> relevance_score \in {"HIGH", "MEDIUM"},
   screening_notes |-> <<>>, confidence_score |-> 8]

\* deep_researcher, lines 215-231
ScreeningResult(paper, criteria) ==
  ScreeningResultOf(paper, calculate_relevance_score(paper, criteria),
                    evaluate_methodology(paper.abstract))

\* research_agents, lines 218-229.  normalized_score is value / 3; it is kept
\* in thirds.
NormalizedScreeningResultOf(criteria, relevance_score, methodology) ==
  [relevance_score |-> RelevanceScore[relevance_score],
   inclusion_criteria |->
     [meets_relevance_threshold |->
        RelevanceScore[relevance_score] >= RelevanceScore[criteria.min_relevance_score],
      has_required_methodology |-> methodology \in Range(criteria.methodology_types)],
   priority_rank |-> 1,
   rationale |-> <<"Relevance score: ", relevance_score, ", Methodology: ",
                   methodology_value[methodology]>>]

\* research_agents, lines 215-230
NormalizedScreeningResult(paper, criteria) ==
  NormalizedScreeningResultOf(criteria, calculate_relevance_score(paper, criteria),
                              evaluate_methodology(paper.abstract))

\* the sort key of a result: relevance_score.value, resp. the normalized score
SortKey(pkg, result) ==
  IF pkg = "deep_researcher" THEN RelevanceScore[result.relevance_score]
  ELSE result.relevance_score

\* faulty variant of enumerate(screening_results, 1): counting from 0
enumerate_from_0(k) == k - 1
\* enumerate(screening_results, 1): the rank of the k-th result
enumerate_from_1(k) == k

\* faulty variant of lines 240-241: every batch theme is attached
identified_themes_unfiltered(batch_themes, paper_id) == batch_themes
\* deep_researcher, lines 240-241
identified_themes(batch_themes, paper_id) ==
  SelectSeq(batch_themes, LAMBDA theme : paper_id \in Range(theme.papers))

\* faulty variant of the normalized-score counts: high_relevance from 0.5 on
batch_statistics_cut_at_half(pkg, results) ==
  IF pkg = "deep_researcher"
  THEN [total_papers |-> Len(results),
        high_relevance |->
          Cardinality({ k \in DOMAIN results : results[k].relevance_score = "HIGH" }),
        medium_relevance |->
          Cardinality({ k \in DOMAIN results : results[k].relevance_score = "MEDIUM" }),
        low_relevance |->
          Cardinality({ k \in DOMAIN results : results[k].relevance_score = "LOW" }),
        irrelevant |->
          Cardinality({ k \in DOMAIN results : results[k].relevance_score = "IRRELEVANT" })]
  ELSE [total_papers |-> Len(results),
        high_relevance |->
          Cardinality({ k \in DOMAIN results : 2 * results[k].relevance_score >= 3 }),
        medium_relevance |->
          Cardinality({ k \in DOMAIN results : /\ 2 * results[k].relevance_score >= 3
                                               /\ 2 * results[k].relevance_score < 3 }),
        low_relevance |->
          Cardinality({ k \in DOMAIN results : /\ 4 * results[k].relevance_score >= 3
                                               /\ 2 * results[k].relevance_score < 3 }),
        irrelevant |->
          Cardinality({ k \in DOMAIN results : 4 * results[k].relevance_score < 3 })]
\* batch_statistics, each count being sum(1 for r in screening_results if ...);
\* 0.75, 0.5 and 0.25 are compared with thirds
batch_statistics(pkg, results) ==
  IF pkg = "deep_researcher"
  THEN [total_papers |-> Len(results),
        high_relevance |->
          Cardinality({ k \in DOMAIN results : results[k].relevance_score = "HIGH" }),
        medium_relevance |->
          Cardinality({ k \in DOMAIN results : results[k].relevance_score = "MEDIUM" }),
        low_relevance |->
          Cardinality({ k \in DOMAIN results : results[k].relevance_score = "LOW" }),
        irrelevant |->
          Cardinality({ k \in DOMAIN results : results[k].relevance_score = "IRRELEVANT" })]
  ELSE [total_papers |-> Len(results),
        high_relevance |->
          Cardinality({ k \in DOMAIN results : 4 * results[k].relevance_score >= 9 }),
        medium_relevance |->
          Cardinality({ k \in DOMAIN results : /\ 2 * results[k].relevance_score >= 3
                                               /\ 4 * results[k].relevance_score < 9 }),
        low_relevance |->
          Cardinality({ k \in DOMAIN results : /\ 4 * results[k].relevance_score >= 3
                                               /\ 2 * results[k].relevance_score < 3 }),
        irrelevant |->
          Cardinality({ k \in DOMAIN results : 4 * results[k].relevance_score < 3 })]

\* lines 214-231: the results of a batch as first built, in input order
built_results(pkg, batch, criteria) ==
  [k \in DOMAIN batch |->
     IF pkg = "deep_researcher" THEN ScreeningResult(batch[k], criteria)
     ELSE NormalizedScreeningResult(batch[k], criteria)]

\* the sort of the results by relevance, reverse=True
sorted_results(pkg, built) ==
  Once(sorted_reverse([k \in DOMAIN built |-> SortKey(pkg, built[k])]),
       LAMBDA order : [p \in DOMAIN built |-> built[order[p]]])

\* the loop over enumerate(screening_results, 1): ranks, and in
\* deep_researcher the themes of each result
ranked_results(pkg, sorted, batch_themes) ==
  [k \in DOMAIN sorted |->
     IF pkg = "deep_researcher"
     THEN [sorted[k] EXCEPT
             !.priority_rank = enumerate_from_1(k),
             !.identified_themes = identified_themes(batch_themes, sorted[k].paper_id)]
     ELSE [sorted[k] EXCEPT !.priority_rank = enumerate_from_1(k)]]

\* class ScreeningBatch.  ScreeningBatch.timestamp is the wall clock; it is
\* left out.
ScreeningBatchOf(pkg, number, screening_results, batch_themes) ==
  [batch_id |-> <<"batch_", number>>, papers |-> screening_results,
   batch_themes |-> batch_themes,
   batch_statistics |-> batch_statistics(pkg, screening_results)]

\* lines 237-260, with the locals screening_results (as built) and batch_themes
RankedBatch(pkg, number, built, batch_themes) ==
  Once(ranked_results(pkg, sorted_results(pkg, built), batch_themes),
       LAMBDA screening_results :
         ScreeningBatchOf(pkg, number, screening_results, batch_themes))

\* the body of the for loop for one batch of well-formed papers: the
\* ScreeningBatch appended to all_batches
ScreeningBatch(pkg, batch, criteria, number) ==
  Once(built_results(pkg, batch, criteria),
       LAMBDA built :
         Once(identify_themes(batch),
              LAMBDA batch_themes : RankedBatch(pkg, number, built, batch_themes)))

\* line 203: AbstractScreeningArgs.model_validate_json
screen_validate ==
  /\ UNCHANGED notScrVars
  /\ scrPc = "called"
  /\ IF args.papers = <<>> \/ args.batch_size <= 0 \/ args.batch_size > 100
     THEN /\ scrPc' = "raised"
          /\ output' = [kind |-> "raise", exc |-> "ValidationError"]
          /\ UNCHANGED <<all_batches, batch_number, range_i>>
     ELSE /\ scrPc' = "loop"
          /\ all_batches' = <<>>
          /\ batch_number' = 1
          /\ range_i' = 0
          /\ UNCHANGED output
  /\ UNCHANGED <<package, args>>

\* lines 209-265: one pass of the for loop.  A KeyError raised while a paper
\* of the batch is scored leaves screen_abstracts.
screen_batch ==
  /\ UNCHANGED notScrVars
  /\ scrPc = "loop"
  /\ range_i < Len(args.papers)
  /\ LET batch == batch_papers_of(args.papers, range_i, args.batch_size)
     IN IF \E k \in DOMAIN batch : RaisesKeyError(batch[k])
        THEN /\ scrPc' = "raised"
             /\ output' = [kind |-> "raise", exc |-> "KeyError"]
             /\ UNCHANGED <<all_batches, batch_number, range_i>>
        ELSE /\ all_batches' =
                  Append(all_batches,
                         ScreeningBatch(package, batch, args.criteria, batch_number))
             /\ batch_number' = batch_number + 1
             /\ range_i' = range_i + args.batch_size
             /\ UNCHANGED <<scrPc, output>>
  /\ UNCHANGED <<package, args>>

\* line 267 (264): return json.dumps(all_batches)
screen_return ==
  /\ UNCHANGED notScrVars
  /\ scrPc = "loop"
  /\ range_i >= Len(args.papers)
  /\ scrPc' = "returned"
  /\ output' = [kind |-> "return", batches |-> all_batches]
  /\ UNCHANGED <<package, args, all_batches, batch_number, range_i>>

InitScreen ==
  /\ InitManagerIdle
  /\ InitOrchestratorIdle
  /\ InitReviewIdle
  /\ InitSearchIdle
  /\ package \in {"deep_researcher", "research_agents"}
  /\ args \in ArgsSet
  /\ scrPc = "called"
  /\ all_batches = <<>> /\ batch_number = 0 /\ range_i = 0 /\ output = <<>>

NextScreen ==
  \/ screen_validate
  \/ screen_batch
  \/ screen_return

SpecScreen == InitScreen /\ [][NextScreen]_vars

-----------------------------------------------------------------------------
(* screen_abstracts, seen by its caller *)

\* the papers of the input that batch k covers
InputOfBatch(k) ==
  SubSeq(args.papers, (k - 1) * args.batch_size + 1,
         Min(k * args.batch_size, Len(args.papers)))

RECURSIVE SumTotalPapers(_)
SumTotalPapers(batches) ==
  IF batches = <<>> THEN 0
  ELSE Head(batches).batch_statistics.total_papers + SumTotalPapers(Tail(batches))

\* C15: a malformed paper (no title or no abstract) aborts its own batch only:
\* the batches completed before it are in the output the caller gets.
C15_EarlierBatchesKept ==
  (scrPc \in {"returned", "raised"} /\ all_batches # <<>>)
    => (output.kind = "return" /\ output.batches = all_batches)

\* C16: the n papers are cut into consecutive batches of batch_size papers,
\* only the last one possibly shorter: batch k holds the papers at positions
\* (k-1)*batch_size .. min(k*batch_size, n)-1 and nothing else, and a call
\* that returns has emitted ceil(n / batch_size) batches whose total_papers
\* sum to n.
C16_ConsecutiveBatches ==
  scrPc \in {"loop", "returned"}
    => LET n == Len(args.papers)
           b == args.batch_size
       IN /\ \A k \in DOMAIN all_batches :
               LET size == Min(k * b, n) - (k - 1) * b
                   res == all_batches[k].papers
                   slice == InputOfBatch(k)
               IN /\ size >= 1
                  /\ k < Len(all_batches) => size = b
                  /\ Len(res) = size
                  /\ all_batches[k].batch_statistics.total_papers = size
                  /\ package = "deep_researcher"
                       => \A d \in Pool :
                            Cardinality({ j \in DOMAIN res :
                                res[j].paper_id = d.arxiv_id /\ res[j].title = d.title })
                              = Cardinality({ j \in DOMAIN slice : slice[j] = d })
          /\ scrPc = "returned"
               => /\ Len(output.batches) * b >= n
                  /\ (Len(output.batches) - 1) * b < n
                  /\ SumTotalPapers(output.batches) = n

\* 3 papers with batch_size 2 came back as batches of 2 and 1
C16_Witness ==
  /\ scrPc = "returned"
  /\ Len(args.papers) = 3
  /\ args.batch_size = 2
  /\ Len(output.batches) = 2
  /\ Len(output.batches[1].papers) = 2
  /\ Len(output.batches[2].papers) = 1

\* C17: in every screened batch the priority_rank values are exactly
\* 1 .. number of papers of the batch, none twice and none missing, in both
\* packages.
C17_RanksAreOneToN ==
  \A k \in DOMAIN all_batches :
    LET res == all_batches[k].papers
    IN /\ { res[j].priority_rank : j \in DOMAIN res } = 1..Len(res)
       /\ \A a, b \in DOMAIN res : a # b => res[a].priority_rank # res[b].priority_rank

\* the normalized-score package has ranked a full batch and a short one
C17_Witness ==
  /\ scrPc = "returned"
  /\ package = "research_agents"
  /\ Len(output.batches) = 2
  /\ Len(output.batches[1].papers) = args.batch_size
  /\ Len(output.batches[2].papers) < args.batch_size
  /\ \E r \in Range(output.batches[1].papers) : r.priority_rank = 2

\* the ordinal of a result's relevance: the tier's in deep_researcher, the
\* normalized score (in thirds) in research_agents
Relevance(r) ==
  IF package = "deep_researcher"
  THEN CASE r.relevance_score = "HIGH" -> 3
         [] r.relevance_score = "MEDIUM" -> 2
         [] r.relevance_score = "LOW" -> 1
         [] r.relevance_score = "IRRELEVANT" -> 0
  ELSE r.relevance_score

Perms(n) == { p \in [1..n -> 1..n] : \A a, b \in 1..n : a # b => p[a] # p[b] }

\* C18: in every screened batch priority_rank follows relevance descending
\* and the sort is stable: a smaller rank never has a smaller relevance, and
\* papers of equal relevance are ranked in their input order.  (Results of
\* research_agents name no paper, so there only the order by relevance shows.)
C18_RankFollowsRelevanceStable ==
  \A k \in DOMAIN all_batches :
    LET res == all_batches[k].papers
        slice == InputOfBatch(k)
    IN /\ \A a, b \in DOMAIN res :
            res[a].priority_rank < res[b].priority_rank
              => Relevance(res[a]) >= Relevance(res[b])
       /\ package = "deep_researcher"
            => \E p \in Perms(Len(res)) :
                 /\ \A a \in DOMAIN res :
                      /\ res[a].paper_id = slice[p[a]].arxiv_id
                      /\ res[a].title = slice[p[a]].title
                 /\ \A a, b \in DOMAIN res :
                      (/\ res[a].priority_rank < res[b].priority_rank
                       /\ Relevance(res[a]) = Relevance(res[b]))
                        => p[a] < p[b]

\* a batch whose first input paper is ranked last, behind two different
\* papers of equal relevance
C18_Witness ==
  /\ scrPc = "returned"
  /\ package = "deep_researcher"
  /\ LET res == output.batches[1].papers
         slice == InputOfBatch(1)
     IN /\ Len(res) = 3
        /\ res[1].paper_id = slice[2].arxiv_id
        /\ res[2].paper_id = slice[3].arxiv_id
        /\ res[3].paper_id = slice[1].arxiv_id
        /\ res[1].paper_id # res[2].paper_id
        /\ res[1].relevance_score = res[2].relevance_score
        /\ res[3].relevance_score # res[1].relevance_score

\* C19: themes never cross batch boundaries: every theme of a batch lists
\* only ids of papers of that batch, and the themes attached to a result are
\* exactly the themes of its own batch that list the result's paper.
C19_ThemesStayInBatch ==
  \A k \in DOMAIN all_batches :
    LET B == all_batches[k]
        slice == InputOfBatch(k)
        ids == { slice[j].arxiv_id : j \in DOMAIN slice }
    IN /\ \A t \in Range(B.batch_themes) : Range(t.papers) \subseteq ids
       /\ package = "deep_researcher"
            => \A r \in Range(B.papers) :
                 /\ Len(r.identified_themes) <= Len(B.batch_themes)
                 /\ \A t \in Range(B.batch_themes) :
                      (r.paper_id \in Range(t.papers))
                        <=> (t \in Range(r.identified_themes))
                 /\ \A t \in Range(r.identified_themes) : t \in Range(B.batch_themes)

\* two batches; a paper of the second batch shares a word with the first
\* batch, whose theme of that word does not list it; in the first batch one
\* result carries some but not all of the batch's themes
C19_Witness ==
  /\ scrPc = "returned"
  /\ package = "deep_researcher"
  /\ Len(output.batches) = 2
  /\ \E r \in Range(output.batches[1].papers) :
       r.identified_themes # <<>> /\ r.identified_themes # output.batches[1].batch_themes
  /\ \E t \in Range(output.batches[1].batch_themes), r2 \in Range(output.batches[2].papers) :
       /\ r2.paper_id \notin Range(t.papers)
       /\ \E d \in Range(InputOfBatch(2)) :
            d.arxiv_id = r2.paper_id /\ str_in(t.theme_name, str_lower(d.abstract))

\* keyword occurs, case-insensitively, as a substring of the title or of the abstract
Occurs(keyword, doc) ==
  \/ str_in(str_lower(keyword), str_lower(doc.title))
  \/ str_in(str_lower(keyword), str_lower(doc.abstract))

\* the tier of s = 2 * (found / n, or 1.0 when n = 0) - excluded + methodology,
\* with s >= 2.5 HIGH, s >= 1.5 MEDIUM, s >= 0.5 LOW, else IRRELEVANT; the
\* comparisons are made on 2 * n * s (2 * s when n = 0)
TierOfPoints(doc, criteria) ==
  LET n == Len(criteria.required_keywords)
      found == Cardinality({ k \in 1..n : Occurs(criteria.required_keywords[k], doc) })
      excluded == Cardinality({ k \in DOMAIN criteria.excluded_keywords :
                                  Occurs(criteria.excluded_keywords[k], doc) })
      methodology ==
        IF \E k \in DOMAIN criteria.methodology_types :
               criteria.methodology_types[k] = evaluate_methodology(doc.abstract)
        THEN 1 ELSE 0
      unit == IF n = 0 THEN 2 ELSE 2 * n
      twice_s_n == IF n = 0 THEN 2 * (2 + methodology - excluded)
                   ELSE 4 * found + 2 * n * (methodology - excluded)
  IN CASE 2 * twice_s_n >= 5 * unit -> "HIGH"
       [] 2 * twice_s_n < 5 * unit /\ 2 * twice_s_n >= 3 * unit -> "MEDIUM"
       [] 2 * twice_s_n < 3 * unit /\ 2 * twice_s_n >= unit -> "LOW"
       [] 2 * twice_s_n < unit -> "IRRELEVANT"

\* C20: for every paper and criteria the relevance tier is the bucket of
\* s = 2 * (required keywords found / number of required keywords, 1.0 when
\* there are none) - (excluded keywords found) + (1 if the classified
\* methodology is in criteria.methodology_types), with the thresholds 2.5, 1.5
\* and 0.5; a keyword is found when it occurs case-insensitively as a
\* substring of the title or the abstract.
C20_TierIsBucketOfPoints ==
  scrPc \in {"loop", "returned"}
    => /\ \A d \in Range(args.papers) :
            ~RaisesKeyError(d)
              => calculate_relevance_score(d, args.criteria) = TierOfPoints(d, args.criteria)
       /\ \A k \in DOMAIN all_batches :
            \A r \in Range(all_batches[k].papers), d \in Range(InputOfBatch(k)) :
              IF package = "deep_researcher"
              THEN (r.paper_id = d.arxiv_id /\ r.title = d.title)
                     => r.relevance_score = TierOfPoints(d, args.criteria)
              ELSE \E d2 \in Range(InputOfBatch(k)) :
                     r.rationale[2] = TierOfPoints(d2, args.criteria)

\* four required keywords: one paper has three of them and a methodology
\* match (s = 2.5, HIGH), one has one and a match (s = 1.5, MEDIUM), and one
\* is found only through its title and loses a point to an excluded keyword
C20_Witness ==
  /\ scrPc = "returned"
  /\ package = "deep_researcher"
  /\ Len(args.criteria.required_keywords) = 4
  /\ Len(output.batches) = 1
  /\ \E r1, r2, r3 \in Range(output.batches[1].papers) :
       /\ r1.relevance_score = "HIGH"
       /\ r2.relevance_score = "MEDIUM"
       /\ r3.relevance_score = "IRRELEVANT"

-----------------------------------------------------------------------------
(* calculate_relevance_score under different excluded keywords *)

\* the excluded keywords that occur in the paper
ExcludedMatches(doc, criteria) ==
  Cardinality({ k \in DOMAIN criteria.excluded_keywords :
                  Occurs(criteria.excluded_keywords[k], doc) })

\* criteria that differ from the given ones in excluded_keywords only
ExcludedVariants(criteria) ==
  { [criteria EXCEPT !.excluded_keywords = ex] :
      ex \in { <<>>,
               << <<"t", "r", "i", "a", "l">> >>,
               << <<"S", "u", "r", "v", "e", "y">>, <<"q", "u", "a", "n", "t", "u", "m">> >>,
               << <<"g", "r", "a", "p", "h">>, <<"s", "u", "r", "v", "e", "y">>,
                  <<"m", "o", "d", "e", "l">>, <<"z", "z">> >> } }

\* the tier t1 under criteria c1 against the tier under c2, for one paper
TierFollowsExcluded(d, c1, t1, c2) ==
  Once(calculate_relevance_score(d, c2),
       LAMBDA t2 :
         /\ ExcludedMatches(d, c2) >= ExcludedMatches(d, c1)
              => RelevanceScore[t2] <= RelevanceScore[t1]
         /\ ExcludedMatches(d, c2) <= ExcludedMatches(d, c1)
              => RelevanceScore[t2] >= RelevanceScore[t1])

\* C21: for a screened paper and criteria that differ in the excluded keywords
\* only, the criteria with at least as many excluded keywords found in the
\* paper give the same tier or a lower one, never a higher one.  The tier
\* under the call's criteria is the one of the paper's result (in
\* research_agents, whose results name no paper, the one computed for it).
C21_MoreExcludedNeverHigher ==
  scrPc = "returned"
    => \A k \in DOMAIN output.batches :
         \A d \in Range(InputOfBatch(k)), c2 \in ExcludedVariants(args.criteria) :
           IF package = "deep_researcher"
           THEN \E r \in Range(output.batches[k].papers) :
                  /\ r.paper_id = d.arxiv_id /\ r.title = d.title
                  /\ TierFollowsExcluded(d, args.criteria, r.relevance_score, c2)
           ELSE Once(calculate_relevance_score(d, args.criteria),
                     LAMBDA t1 :
                       /\ \E r \in Range(output.batches[k].papers) : r.rationale[2] = t1
                       /\ TierFollowsExcluded(d, args.criteria, t1, c2))

\* a paper screened HIGH that two more excluded keywords would bring down,
\* and a paper whose tier stays the same with one more excluded keyword found
C21_Witness ==
  /\ scrPc = "returned"
  /\ package = "deep_researcher"
  /\ \E r \in Range(output.batches[1].papers), d \in Range(InputOfBatch(1)),
        c2 \in ExcludedVariants(args.criteria) :
       /\ r.paper_id = d.arxiv_id /\ r.relevance_score = "HIGH"
       /\ ExcludedMatches(d, args.criteria) = 0
       /\ ExcludedMatches(d, c2) = 2
       /\ RelevanceScore[calculate_relevance_score(d, c2)] < 3
  /\ \E d \in Range(InputOfBatch(1)), c2 \in ExcludedVariants(args.criteria) :
       /\ ~RaisesKeyError(d)
       /\ ExcludedMatches(d, c2) > ExcludedMatches(d, args.criteria)
       /\ calculate_relevance_score(d, c2) = calculate_relevance_score(d, args.criteria)

-----------------------------------------------------------------------------
(* screen_abstracts of deep_researcher on papers chosen for the classifier  *)
(* and the theme extraction: abstracts that repeat a trigger phrase, one    *)
(* with no trigger phrase, and two papers that together have twelve words   *)
(* occurring more than once, one of them with two methodologies level.      *)

TextPool ==
  { Paper({"arxiv_id", "title", "abstract"}, "t1",
          <<"T", "r", "i", "a", "l", "s">>,
          <<"T", "r", "i", "a", "l", " ", "t", "r", "i", "a", "l", " ", "t", "r", "i", "a", "l", " ", "o", "f", " ", "a", " ", "m", "o", "d", "e", "l", " ", "t", "h", "e", "o", "r", "y">>),
    Paper({"arxiv_id", "title", "abstract"}, "t2",
          <<"N", "o", "t", "e", "s">>,
          <<"R", "a", "i", "n", " ", "d", "a", "t", "a">>),
    Paper({"arxiv_id", "title", "abstract"}, "t3",
          <<"M", "o", "d", "e", "l", "s">>,
          <<"T", "r", "i", "a", "l", " ", "t", "r", "i", "a", "l", " ", "m", "o", "d", "e", "l", " ", "t", "h", "e", "o", "r", "y">>),
    Paper({"arxiv_id", "title", "abstract"}, "t4",
          <<"a", "l", "p", "h", "a", " ", "b", "r", "a", "v", "o", " ", "c", "a", "r", "g", "o", " ", "d", "e", "l", "t", "a", " ", "e", "a", "g", "l", "e", " ", "f", "j", "o", "r", "d">>,
          <<"A", "l", "p", "h", "a", " ", "b", "r", "a", "v", "o", " ", "c", "a", "r", "g", "o", " ", "d", "e", "l", "t", "a", " ", "e", "a", "g", "l", "e", " ", "f", "j", "o", "r", "d", " ", "f", "j", "o", "r", "d">>),
    Paper({"arxiv_id", "title", "abstract"}, "t5",
          <<"g", "a", "m", "m", "a", " ", "h", "o", "t", "e", "l", " ", "i", "n", "d", "i", "a", " ", "j", "o", "k", "e", "r", " ", "k", "i", "l", "o", "s", " ", "l", "e", "m", "o", "n">>,
          <<"G", "a", "m", "m", "a", " ", "h", "o", "t", "e", "l", " ", "i", "n", "d", "i", "a", " ", "j", "o", "k", "e", "r", " ", "k", "i", "l", "o", "s", " ", "l", "e", "m", "o", "n", " ", "l", "e", "m", "o", "n", " ", "s", "u", "r", "v", "e", "y">>) }

TextArgsSet ==
  { AbstractScreeningArgs(ps, ScreeningCriteria(<<>>, <<>>, <<"EXPERIMENTAL">>), b) :
      ps \in UNION { [1..n -> TextPool] : n \in 0..MaxDocs },
      b \in 1..MaxBatchSize }

InitTexts ==
  /\ InitManagerIdle
  /\ InitOrchestratorIdle
  /\ InitReviewIdle
  /\ InitSearchIdle
  /\ package = "deep_researcher"
  /\ args \in TextArgsSet
  /\ scrPc = "called"
  /\ all_batches = <<>> /\ batch_number = 0 /\ range_i = 0 /\ output = <<>>

SpecTexts == InitTexts /\ [][NextScreen]_vars

-----------------------------------------------------------------------------
(* evaluate_methodology, seen through methodology_type of the results *)

\* str.count for a phrase that cannot overlap itself: the places where it starts
OccurrenceCount(phrase, text) ==
  Cardinality({ k \in 1..(Len(text) - Len(phrase) + 1) :
                  SubSeq(text, k, k + Len(phrase) - 1) = phrase })

\* the occurrences of the trigger phrases of a methodology in the lower-cased abstract
OccurrenceSum(method, doc) ==
  LET kws == methodology_keywords[method]
  IN OccurrenceCount(kws[1], str_lower(doc.abstract))
       + OccurrenceCount(kws[2], str_lower(doc.abstract))
       + OccurrenceCount(kws[3], str_lower(doc.abstract))

\* C22: the methodology of a screened paper is a category whose trigger
\* phrases have the greatest total number of occurrences in the lower-cased
\* abstract, a phrase that occurs k times counting k.
C22_MethodologyByOccurrences ==
  \A k \in DOMAIN all_batches :
    \A r \in Range(all_batches[k].papers), d \in Range(InputOfBatch(k)) :
      (r.paper_id = d.arxiv_id /\ r.methodology_type # "OTHER")
        => \A m \in DOMAIN methodology_keywords :
             OccurrenceSum(m, d) <= OccurrenceSum(r.methodology_type, d)

\* the first methodology in declaration order among those with the greatest
\* number of trigger-phrase occurrences, OTHER when there is no occurrence
FirstOfMostOccurrences(doc) ==
  IF \A m \in DOMAIN methodology_keywords : OccurrenceSum(m, doc) = 0 THEN "OTHER"
  ELSE MethodologyType[CHOOSE k \in 1..6 :
         /\ \A j \in 1..6 :
              OccurrenceSum(MethodologyType[j], doc) <= OccurrenceSum(MethodologyType[k], doc)
         /\ \A j \in 1..(k - 1) :
              OccurrenceSum(MethodologyType[j], doc) < OccurrenceSum(MethodologyType[k], doc)]

\* C23: the methodology of a screened paper is the first in declaration
\* order among the categories level at the maximum score, it is OTHER exactly
\* when no trigger phrase occurs in the abstract, and two results for the same
\* abstract have the same methodology.
C23_TieGoesToFirstDeclared ==
  \A k \in DOMAIN all_batches :
    \A r \in Range(all_batches[k].papers), d \in Range(InputOfBatch(k)) :
      r.paper_id = d.arxiv_id
        => /\ r.methodology_type = FirstOfMostOccurrences(d)
           /\ \A k2 \in DOMAIN all_batches :
                \A r2 \in Range(all_batches[k2].papers) :
                  r2.paper_id = r.paper_id => r2.methodology_type = r.methodology_type

-----------------------------------------------------------------------------
(* identify_themes, seen through batch_themes of the batches *)

\* the ids of the papers that have the token among the words of title and abstract
DocumentsWith(token, docs) ==
  { docs[j].arxiv_id : j \in { i \in DOMAIN docs : token \in Range(paper_words(docs[i])) } }

\* C24: no theme of a batch lists a single paper: the token of every theme
\* is a word of at least 2 distinct papers of the batch.
C24_ThemeSpansTwoDocuments ==
  \A k \in DOMAIN all_batches :
    \A t \in Range(all_batches[k].batch_themes) :
      /\ Cardinality(Range(t.papers)) # 1
      /\ Cardinality(DocumentsWith(t.theme_name, InputOfBatch(k))) >= 2

\* the words of the papers of a batch, paper after paper
RECURSIVE WordsOfBatch(_)
WordsOfBatch(docs) ==
  IF docs = <<>> THEN <<>>
  ELSE paper_words(Head(docs)) \o WordsOfBatch(Tail(docs))

\* how often a word occurs in a sequence of words
WordCount(word, words) == Cardinality({ j \in DOMAIN words : words[j] = word })

\* batch_themes against the words of the batch's papers
ThemesAreTopOfWords(themes, words) ==
  /\ Len(themes) <= 10
  /\ \A a, b \in DOMAIN themes : a < b => themes[a].frequency >= themes[b].frequency
  /\ \A t \in Range(themes) :
       /\ Len(t.theme_name) > 4
       /\ t.frequency = WordCount(t.theme_name, words)
       /\ t.frequency >= Cardinality(Range(t.papers))
  /\ \A w \in Range(words) :
       (/\ Len(w) > 4
        /\ WordCount(w, words) > 1
        /\ \A t \in Range(themes) : t.theme_name # w)
         => /\ Len(themes) = 10
            /\ \A t \in Range(themes) : WordCount(w, words) <= t.frequency

\* C25: a batch has at most 10 themes, in descending order of frequency; a
\* word longer than 4 characters that occurs more than once in the batch and
\* is not among them occurs no more often than any of them; every theme's
\* token is longer than 4 characters, its frequency is the number of
\* occurrences of the token in the titles and abstracts of the batch, and that
\* is at least the number of its paper ids.
C25_TopTenThemesByFrequency ==
  \A k \in DOMAIN all_batches :
    Once(WordsOfBatch(InputOfBatch(k)),
         LAMBDA words : ThemesAreTopOfWords(all_batches[k].batch_themes, words))

\* a batch of two papers with twelve words occurring more than once: ten
\* themes came back, the first with frequency 3 and the last with frequency 2
C25_Witness ==
  /\ scrPc = "returned"
  /\ Len(output.batches) = 1
  /\ Len(output.batches[1].papers) = 2
  /\ LET themes == output.batches[1].batch_themes
     IN /\ Len(themes) = 10
        /\ themes[1].frequency = 3
        /\ themes[10].frequency = 2
        /\ Cardinality({ w \in Range(WordsOfBatch(InputOfBatch(1))) :
                           Len(w) > 4 /\ WordCount(w, WordsOfBatch(InputOfBatch(1))) > 1 }) = 12

-----------------------------------------------------------------------------
(* Part IV: search_execution (research_agents/search_execution_agent.py).   *)
(* execution holds the locals of one call; provider is the arxiv service:   *)
(* how many results the query has, how many fetches were made of it, and    *)
(* how the last one ended.  A paper is named by its place in the provider's *)
(* result order.                                                            *)

MaxResults == 3

\* str.strip() for blanks
str_strip(v) ==
  IF \A k \in DOMAIN v : v[k] = " " THEN <<>>
  ELSE LET first == CHOOSE k \in DOMAIN v : v[k] # " " /\ \A j \in 1..(k - 1) : v[j] = " "
           last == CHOOSE k \in DOMAIN v : v[k] # " " /\ \A j \in (k + 1)..Len(v) : v[j] = " "
       IN SubSeq(v, first, last)

\* SearchExecutionArgs.query_not_empty: the validator accepts v
query_not_empty(v) == str_strip(v) # <<>>

valid_categories ==
  {"cs.AI", "quant-ph", "cs.LG", "cs.CL", "cs.NE", "stat.ML", "cs.CV", "cs.RO", "cs.HC"}

\* Optional[List[str]]: None, or a list
NoList == [is_none |-> TRUE, list |-> <<>>]
SomeList(list) == [is_none |-> FALSE, list |-> list]

\* faulty variant of validate_categories: every category is accepted
validate_categories_any(v) == TRUE
\* SearchExecutionArgs.validate_categories: the validator accepts v
validate_categories(v) ==
  v.is_none \/ \A k \in DOMAIN v.list : v.list[k] \in valid_categories

\* class SearchExecutionArgs (min_date and max_date are never read)
SearchExecutionArgs(query, max_results, categories, batch_size) ==
  [query |-> query, max_results |-> max_results, categories |-> categories,
   batch_size |-> batch_size]

\* SearchExecutionArgs.model_validate_json accepts the arguments
model_validate_json(a) ==
  /\ query_not_empty(a.query)
  /\ a.max_results > 0 /\ a.max_results <= 1000
  /\ validate_categories(a.categories)
  /\ a.batch_size > 0 /\ a.batch_size <= 100

SearchArgsSet ==
  { SearchExecutionArgs(q, m, c, b) :
      q \in { <<>>, <<" ", " ">>, <<"a", "i">>, <<" ", "a", "i", " ">> },
      m \in {-1, 1001} \cup 0..MaxResults,
      c \in { NoList, SomeList(<<>>), SomeList(<<"cs.AI">>),
               SomeList(<<"cs.AI", "invalid-category">>) },
      b \in {101} \cup 0..MaxBatchSize }

\* @retry(stop=stop_after_attempt(3), ..., reraise=True)
stop_after_attempt == 3

\* faulty variant of the stop condition: one attempt fewer
stop_one_early(attempt_number) == attempt_number >= stop_after_attempt - 1
\* tenacity stops retrying after this attempt
stop(attempt_number) == attempt_number >= stop_after_attempt

\* faulty variant of lines 95-100: the first `start` results are not skipped
execute_search_batch_unskipped(available, max_results, start, batch_size) ==
  [k \in 1..(Min(start + batch_size, Min(available, max_results)) - start) |-> k]
\* execute_search_batch when no fetch fails: the results after the first
\* `start`, at most batch_size of them; arxiv.Search(max_results=...) ends the
\* iterator after max_results results
execute_search_batch(available, max_results, start, batch_size) ==
  [k \in 1..(Min(start + batch_size, Min(available, max_results)) - start) |-> start + k]

\* class BatchResult (search_metadata without its timestamp)
BatchResult(batch_number_, batch_papers, total_processed, has_more, a) ==
  [batch_number |-> batch_number_, papers |-> batch_papers,
   total_processed |-> total_processed, has_more |-> has_more,
   search_metadata |-> [query |-> a.query, categories |-> a.categories,
                        batch_size |-> a.batch_size]]

\* lines 129-149: validation (query comes back stripped), then the query, the
\* client and the search are built; none of it calls the provider
search_validate ==
  /\ UNCHANGED notSrchVars
  /\ execution.pc = "called"
  /\ IF ~model_validate_json(execution.args)
     THEN execution' = [execution EXCEPT
                          !.pc = "raised",
                          !.output = [kind |-> "raise", exc |-> "ValidationError"]]
     ELSE execution' = [execution EXCEPT
                          !.pc = "loop",
                          !.args = [@ EXCEPT !.query = str_strip(@)],
                          !.all_batches = <<>>,
                          !.total_processed = 0,
                          !.batch_number = 1,
                          !.attempt_number = 1]
  /\ UNCHANGED provider

\* lines 151-158 and 182-184: an attempt of execute_search_batch in which the
\* provider fails.  tenacity calls again unless this was the last attempt;
\* then the error is re-raised, logged at line 183 and re-raised at line 184.
execute_search_batch_fails ==
  /\ UNCHANGED notSrchVars
  /\ execution.pc = "loop"
  /\ execution.total_processed < execution.args.max_results
  /\ provider' = [provider EXCEPT !.requests = @ + 1, !.last = "error"]
  /\ IF stop(execution.attempt_number)
     THEN execution' = [execution EXCEPT
                          !.pc = "raised",
                          !.output = [kind |-> "raise", exc |-> "ProviderError"]]
     ELSE execution' = [execution EXCEPT !.attempt_number = @ + 1]

\* lines 151-180: an attempt of execute_search_batch that returns; an empty
\* batch breaks the loop and line 186 returns
execute_search_batch_returns ==
  /\ UNCHANGED notSrchVars
  /\ execution.pc = "loop"
  /\ execution.total_processed < execution.args.max_results
  /\ provider' = [provider EXCEPT !.requests = @ + 1, !.last = "ok"]
  /\ LET a == execution.args
         batch_results ==
           execute_search_batch(provider.available, a.max_results,
                                execution.total_processed,
                                Min(a.batch_size, a.max_results - execution.total_processed))
         processed == execution.total_processed + Len(batch_results)
     IN IF batch_results = <<>>
        THEN execution' = [execution EXCEPT
                             !.pc = "returned",
                             !.output = [kind |-> "return", batches |-> execution.all_batches]]
        ELSE execution' = [execution EXCEPT
                             !.all_batches =
                               Append(@, BatchResult(execution.batch_number, batch_results,
                                                     processed, processed < a.max_results, a)),
                             !.total_processed = processed,
                             !.batch_number = @ + 1,
                             !.attempt_number = 1]

\* lines 151 and 186: the loop ends, json.dumps(all_batches)
search_return ==
  /\ UNCHANGED notSrchVars
  /\ execution.pc = "loop"
  /\ execution.total_processed >= execution.args.max_results
  /\ execution' = [execution EXCEPT
                     !.pc = "returned",
                     !.output = [kind |-> "return", batches |-> execution.all_batches]]
  /\ UNCHANGED provider

InitSearch ==
  /\ InitManagerIdle
  /\ InitOrchestratorIdle
  /\ InitReviewIdle
  /\ InitScreenIdle
  /\ tasks = <<>>
  /\ gathered = [kind |-> "idle"]
  /\ \E a \in SearchArgsSet :
       execution = [pc |-> "called", args |-> a, all_batches |-> <<>>,
                    total_processed |-> 0, batch_number |-> 0, attempt_number |-> 0,
                    output |-> <<>>]
  /\ \E n \in 0..(MaxResults + 1) :
       provider = [available |-> n, requests |-> 0, last |-> "none"]

NextSearch ==
  \/ search_validate
  \/ execute_search_batch_fails
  \/ execute_search_batch_returns
  \/ search_return

SpecSearch == InitSearch /\ [][NextSearch]_vars

-----------------------------------------------------------------------------
(* search_execution, seen by its caller and by the provider *)

\* C26: when the query is empty or blank, max_results is outside 1..1000,
\* batch_size is outside 1..100 or a category is outside the allow-list, the
\* call ends with a validation error and the provider has had no request.
C26_InvalidArgsNeverReachProvider ==
  LET a == execution.args
  IN (/\ execution.pc # "called"
      /\ \/ \A k \in DOMAIN a.query : a.query[k] = " "
         \/ a.max_results < 1 \/ a.max_results > 1000
         \/ a.batch_size < 1 \/ a.batch_size > 100
         \/ ~a.categories.is_none
              /\ \E c \in Range(a.categories.list) : c \notin valid_categories)
       => /\ execution.pc = "raised"
          /\ execution.output = [kind |-> "raise", exc |-> "ValidationError"]
          /\ provider.requests = 0

\* a call whose only fault is a category outside the allow-list has been refused
C26_Witness ==
  /\ execution.pc = "raised"
  /\ execution.output.exc = "ValidationError"
  /\ execution.args.query = <<"a", "i">>
  /\ execution.args.max_results = 1
  /\ execution.args.batch_size = 1
  /\ execution.args.categories = SomeList(<<"cs.AI", "invalid-category">>)
  /\ provider.available > 0

\* C27: a batch fetch is attempted at most 3 times.  When an attempt fails
\* and it was the first or the second, the same batch is attempted again and
\* nothing else changes; when the third fails, the call ends with the
\* provider's error; when an attempt returns papers, they are the next batch
\* and the search goes on with a first attempt of the following one.
C27_FetchAttemptedAtMostThrice ==
  [][ /\ provider'.requests <= provider.requests + 1
      /\ provider'.requests = provider.requests + 1
           => /\ execution.pc = "loop"
              /\ execution.attempt_number \in 1..3
              /\ (provider'.last = "error" /\ execution.attempt_number < 3)
                   => execution' = [execution EXCEPT !.attempt_number = @ + 1]
              /\ (provider'.last = "error" /\ execution.attempt_number = 3)
                   => /\ execution'.pc = "raised"
                      /\ execution'.output = [kind |-> "raise", exc |-> "ProviderError"]
              /\ provider'.last = "ok"
                   => \/ /\ execution'.pc = "loop"
                         /\ execution'.attempt_number = 1
                         /\ Len(execution'.all_batches) = Len(execution.all_batches) + 1
                         /\ SubSeq(execution'.all_batches, 1, Len(execution.all_batches))
                              = execution.all_batches
                         /\ execution'.all_batches[Len(execution'.all_batches)].papers # <<>>
                         /\ execution'.total_processed > execution.total_processed
                      \/ /\ execution'.pc = "returned"
                         /\ execution'.output.batches = execution.all_batches
    ]_vars

\* a search that returned two batches after six fetches: each batch came on
\* the third attempt, after two failures
C27_Witness ==
  /\ execution.pc = "returned"
  /\ Len(execution.output.batches) = 2
  /\ execution.total_processed = execution.args.max_results
  /\ provider.requests = 6

-----------------------------------------------------------------------------
(* Part V: AbstractScreeningAgent.screen_papers                             *)
(* (research_agents/abstract_screening_agent.py): one screen_paper          *)
(* coroutine per paper, awaited together by asyncio.gather.  tasks[k] is    *)
(* the coroutine of the k-th paper; gathered is what the await of gather    *)
(* has given to screen_papers, which returns or raises it as it is.         *)

\* how the call to the model ends for one paper: a response that parses, a
\* response that is not JSON, a JSON response without a required field, no
\* response within self.timeout, an exception of the client
ResponseOutcomes == {"valid", "not_json", "field_missing", "timeout", "client_error"}

\* screen_paper, lines 361-404: the exception it raises for an outcome, ""
\* when it returns.  asyncio.TimeoutError becomes TimeoutError and passes
\* the outer handlers as it is; json.JSONDecodeError becomes ValueError; that,
\* pydantic's ValidationError and every other exception become RuntimeError.
screen_paper_raises(outcome) ==
  CASE outcome = "valid" -> ""
    [] outcome = "timeout" -> "TimeoutError"
    [] outcome \in {"not_json", "field_missing", "client_error"} -> "RuntimeError"

\* the papers screen_papers is given: a paper of a search batch, as start_review
\* collects them (it reads paper["arxiv_id"], workflow.py 178), and a dict
\* with the fields of a PaperResult.  A paper is a dict: `keys` are its keys.
ScreenablePapers ==
  { [keys |-> {"arxiv_id", "title", "abstract", "authors"}, arxiv_id |-> "2401.00001",
     title |-> <<"Graph Networks">>, abstract |-> <<"We study graphs.">>,
     authors |-> <<"A">>],
    [keys |-> {"paper_id", "title", "abstract"}, paper_id |-> "p2",
     title |-> <<"Kernels">>, abstract |-> <<"Kernels.">>] }

\* paper.get(key, default)
paper_get(paper, key, default) == IF key \in paper.keys THEN paper[key] ELSE default

\* class ScreenedPaper, as screen_paper builds it at lines 384-395 for a paper;
\* the fields taken from the response of the model are left out
ScreenedPaper(paper) ==
  [paper_id |-> paper_get(paper, "paper_id", ""),
   title |-> paper_get(paper, "title", <<>>),
   abstract |-> paper_get(paper, "abstract", <<>>)]

Pending(paper) == [paper |-> paper, done |-> FALSE, outcome |-> "", exc |-> ""]

\* lines 406-412: the coroutines are made and gather awaits them; with no
\* paper gather gives [] at once
screen_papers ==
  /\ UNCHANGED notFanVars
  /\ gathered.kind = "called"
  /\ tasks' = [k \in DOMAIN gathered.papers |-> Pending(gathered.papers[k])]
  /\ gathered' = IF gathered.papers = <<>>
                 THEN [kind |-> "return", results |-> <<>>]
                 ELSE [kind |-> "waiting"]

\* one screen_paper coroutine ends.  gather(*tasks) without
\* return_exceptions: the first exception of a task is raised to the awaiter
\* at once, the other tasks run on and what they return or raise is not
\* looked at; when every task has returned, the results come in task order.
screen_paper ==
  /\ UNCHANGED notFanVars
  /\ \E k \in DOMAIN tasks, outcome \in ResponseOutcomes :
       /\ ~tasks[k].done
       /\ tasks' = [tasks EXCEPT ![k] = [paper |-> @.paper, done |-> TRUE,
                                         outcome |-> outcome,
                                         exc |-> screen_paper_raises(outcome)]]
       /\ gathered' =
            IF gathered.kind # "waiting" THEN gathered
            ELSE IF screen_paper_raises(outcome) # ""
            THEN [kind |-> "raise", exc |-> screen_paper_raises(outcome)]
            ELSE IF \A j \in DOMAIN tasks : j # k => (tasks[j].done /\ tasks[j].exc = "")
            THEN [kind |-> "return",
                  results |-> [j \in DOMAIN tasks |-> ScreenedPaper(tasks[j].paper)]]
            ELSE gathered

InitFanOut ==
  /\ InitManagerIdle
  /\ InitOrchestratorIdle
  /\ InitReviewIdle
  /\ InitScreenIdle
  /\ execution = [pc |-> "idle"]
  /\ provider = [available |-> 0, requests |-> 0, last |-> "none"]
  /\ tasks = <<>>
  /\ \E arg_papers \in UNION { [1..n -> ScreenablePapers] : n \in 0..MaxDocs } :
       gathered = [kind |-> "called", papers |-> arg_papers]

NextFanOut ==
  \/ screen_papers
  \/ screen_paper

SpecFanOut == InitFanOut /\ [][NextFanOut]_vars

\* C28: when every screen_paper of a screen_papers call has ended, one of
\* them raised and another returned, the caller has the results of the ones
\* that returned (together with the failure), not an exception alone.
C28_SiblingResultsKept ==
  (/\ tasks # <<>>
   /\ \A k \in DOMAIN tasks : tasks[k].done
   /\ \E k \in DOMAIN tasks : tasks[k].exc # ""
   /\ \E k \in DOMAIN tasks : tasks[k].exc = "")
    => /\ gathered.kind = "return"
       /\ \A k \in DOMAIN tasks :
            tasks[k].exc = "" => ScreenedPaper(tasks[k].paper) \in Range(gathered.results)

-----------------------------------------------------------------------------
(* start_review: timeouts and the persistence sink *)

-----------------------------------------------------------------------------
(* search_execution: the batches *)

\* total_processed of the batch before the k-th
ProcessedBefore(batches, k) == IF k = 1 THEN 0 ELSE batches[k - 1].total_processed

\* C31: the batches of a search are numbered 1, 2, 3, ...; each is non-empty
\* and has at most batch_size papers; total_processed of batch k is
\* total_processed of batch k-1 plus the size of batch k (the sum of the
\* sizes so far) and is at most max_results; batch k holds exactly the
\* provider's results at the offsets from total_processed of batch k-1 up to
\* its own total_processed - 1 (a result at offset o is named o + 1).
C31_BatchesPartitionResults ==
  execution.pc \in {"loop", "returned"}
    => LET B == execution.all_batches
       IN /\ \A k \in DOMAIN B :
               /\ B[k].batch_number = k
               /\ B[k].papers # <<>>
               /\ Len(B[k].papers) <= execution.args.batch_size
               /\ B[k].total_processed = ProcessedBefore(B, k) + Len(B[k].papers)
               /\ B[k].total_processed <= execution.args.max_results
               /\ B[k].total_processed <= provider.available
               /\ B[k].papers = [j \in 1..Len(B[k].papers) |-> ProcessedBefore(B, k) + j]
          /\ execution.total_processed = ProcessedBefore(B, Len(B) + 1)
          /\ execution.pc = "returned" => execution.output.batches = B

\* three results asked in batches of two: batches of sizes 2 and 1 came back
C31_Witness ==
  /\ execution.pc = "returned"
  /\ execution.args.max_results = 3
  /\ execution.args.batch_size = 2
  /\ Len(execution.output.batches) = 2
  /\ execution.output.batches[1].papers = <<1, 2>>
  /\ execution.output.batches[2].papers = <<3>>
  /\ execution.output.batches[2].total_processed = 3

\* C37: in the output of a search that returned, has_more of a batch is true
\* exactly when another batch follows it; the last batch has has_more false.
C37_HasMoreIffBatchFollows ==
  execution.pc = "returned"
    => \A k \in DOMAIN execution.output.batches :
         execution.output.batches[k].has_more <=> k < Len(execution.output.batches)

-----------------------------------------------------------------------------
(* screen_abstracts: the two packages side by side *)

OtherPackage == IF package = "deep_researcher" THEN "research_agents" ELSE "deep_researcher"

\* the results the other package builds from the same tiers: research_agents
\* stores RelevanceScore.value / 3 (kept in thirds) where deep_researcher
\* stores the tier, whose name research_agents keeps in the rationale
ResultsOfOtherPackage(results) ==
  [k \in DOMAIN results |->
     IF package = "deep_researcher"
     THEN NormalizedScreeningResultOf(args.criteria, results[k].relevance_score,
                                      results[k].methodology_type)
     ELSE [relevance_score |-> results[k].rationale[2]]]

\* the four counts of a batch sum to its total_papers
CountsSumToTotal(stats) ==
  stats.high_relevance + stats.medium_relevance + stats.low_relevance + stats.irrelevant
    = stats.total_papers

\* C32: for every batch of a call, the batch statistics are the ones the other
\* package computes for the same papers and criteria (tier counted directly
\* in deep_researcher, tier ordinal / 3 cut at 0.75, 0.5 and 0.25 in
\* research_agents), and the four counts sum to total_papers.
C32_StatisticsAgree ==
  \A k \in DOMAIN all_batches :
    Once(batch_statistics(OtherPackage, ResultsOfOtherPackage(all_batches[k].papers)),
         LAMBDA other :
           /\ all_batches[k].batch_statistics = other
           /\ CountsSumToTotal(other))

\* the normalized-score package has counted a batch with a HIGH, a MEDIUM and
\* an IRRELEVANT paper
C32_Witness ==
  /\ scrPc = "returned"
  /\ package = "research_agents"
  /\ output.batches[1].batch_statistics.high_relevance = 1
  /\ output.batches[1].batch_statistics.medium_relevance = 1
  /\ output.batches[1].batch_statistics.irrelevant = 1
  /\ output.batches[1].batch_statistics.total_papers = 3
  /\ { r.relevance_score : r \in Range(output.batches[1].papers) } = {3, 2, 0}

\* C38: a result is HIGH only if the methodology classified for the paper is
\* one of criteria.methodology_types; with no methodology_types nothing is HIGH.
C38_HighNeedsMethodology ==
  \A k \in DOMAIN all_batches :
    \A r \in Range(all_batches[k].papers) :
      /\ (package = "deep_researcher" /\ r.relevance_score = "HIGH")
           => r.methodology_type \in Range(args.criteria.methodology_types)
      /\ (package = "research_agents" /\ r.relevance_score = RelevanceScore.HIGH)
           => /\ r.inclusion_criteria.has_required_methodology
              /\ args.criteria.methodology_types # <<>>

\* a HIGH paper with a methodology of the criteria next to a paper with the
\* same methodology match that is not HIGH
C38_Witness ==
  /\ scrPc = "returned"
  /\ package = "deep_researcher"
  /\ \E r1, r2 \in Range(output.batches[1].papers) :
       /\ r1.relevance_score = "HIGH"
       /\ r1.methodology_type \in Range(args.criteria.methodology_types)
       /\ r2.relevance_score = "MEDIUM"
       /\ r2.methodology_type \in Range(args.criteria.methodology_types)

-----------------------------------------------------------------------------
(* The order of the checkpoints of ResearchWorkflowManager *)

\* steps is a prefix of questions, keywords, papers, screening
InStepOrder(steps) ==
  /\ Len(steps) <= Len(StepOrder)
  /\ \A k \in DOMAIN steps : steps[k] = StepOrder[k]

\* C33: after a single successful start_workflow the i-th checkpoint of the
\* history has the i-th step of questions, keywords, papers, screening (so at
\* most 4 checkpoints, no step twice, no step without its predecessors): the
\* first start_workflow leaves the one checkpoint questions, and no call of
\* continue_workflow, modify_current_step, go_back or get_final_results takes
\* a history in that order to one that is not.
C33_HistoryInStepOrder ==
  [][/\ (lastOp' = "start_workflow" /\ history = <<>>)
          => HistorySteps' = <<"questions">>
     /\ (lastOp' # "start_workflow" /\ history # <<>> /\ InStepOrder(HistorySteps))
          => InStepOrder(HistorySteps')]_vars

C33_Witness ==
  /\ lastOp = "go_back" /\ ret.kind = "state"
  /\ HistorySteps = <<"questions", "keywords", "papers">>
  /\ states[history[2]].modified_by_user

\* C34: modify_current_step changes only the current checkpoint: every other
\* checkpoint of the history shows the same payload and the same
\* modified_by_user flag after the call as before it, so a relevance override
\* made at step screening is not seen in the papers checkpoint a following
\* go_back returns.
C34_ModifyOnlyCurrent ==
  [][lastOp' = "modify_current_step"
       => \A k \in DOMAIN history :
            history[k] # current_state
              => CheckpointValue(states', papers', history[k])
                   = CheckpointValue(states, papers, history[k])]_vars

\* C35: if the stage continue_workflow invokes raises, no checkpoint is
\* appended: the history holds the same checkpoints in the same order, showing
\* the same values, and the current checkpoint is the same as before the call;
\* a continue_workflow that follows invokes the same stage again, so it either
\* raises again or appends the checkpoint of the step after the current one.
C35_FailedStageAppendsNothing ==
  [][/\ (lastOp' = "continue_workflow" /\ ret'.kind = "raise")
          => /\ history' = history
             /\ current_state' = current_state
             /\ \A k \in DOMAIN history :
                  CheckpointValue(states', papers', history[k])
                    = CheckpointValue(states, papers, history[k])
     /\ (lastOp = "continue_workflow" /\ ret.kind = "raise"
          /\ lastOp' = "continue_workflow" /\ ret'.kind # "raise")
          => /\ ret'.kind = "state"
             /\ history' = Append(history, ret'.val)
             /\ InStepOrder(HistorySteps) => InStepOrder(HistorySteps')]_vars

\* a search that raised, then a continue_workflow that invoked it again
C35_Witness ==
  /\ lastOp = "continue_workflow" /\ ret.kind = "raise"
  /\ HistorySteps = <<"questions", "keywords">>
  /\ current_state = history[2]
  /\ states[current_state].modified_by_user

-----------------------------------------------------------------------------
(* Part VI: execute_research_workflow (workflow_orchestrator.py), from the  *)
(* call of screen_abstracts on.  The research question, the keyword         *)
(* analysis and the search results are the answers of the agents called at  *)
(* lines 75-98; they are the inputs of the run.  The call of                *)
(* screen_abstracts is the state machine of Part III, package               *)
(* deep_researcher; workflow_run holds the locals of the caller.            *)

\* the authors the search returned for a document
authors_by_id == [a1 |-> <<"Ada">>, a2 |-> <<"Bo", "Cy">>, a3 |-> <<"Di">>]

\* a paper of a BatchResult of search_execution, model_dump'ed: it has every key
SearchPapers ==
  { [keys |-> p.keys \cup {"authors"}, arxiv_id |-> p.arxiv_id, title |-> p.title,
     abstract |-> p.abstract, authors |-> authors_by_id[p.arxiv_id]] :
      p \in { q \in Pool : "abstract" \in q.keys } }

\* keyword_data: primary_keywords and excluded_keywords
KeywordData ==
  { [primary_keywords |-> c.required_keywords, excluded_keywords |-> c.excluded_keywords] :
      c \in CriteriaSet }

\* the literal batch_size of the screening query
screening_batch_size == 10

\* lines 108-126
screening_query(found, keyword_data) ==
  AbstractScreeningArgs(
    found,
    [ScreeningCriteria(keyword_data.primary_keywords, keyword_data.excluded_keywords,
                       <<"EXPERIMENTAL", "THEORETICAL", "REVIEW">>)
       EXCEPT !.min_relevance_score = "MEDIUM"],
    screening_batch_size)

\* str() of an Enum member, what json.dumps(..., default=str) writes for it
str_of_enum(class, member) == <<class, ".", member>>

\* json.loads(json.dumps(all_batches, default=str)): the enum members of the
\* results come back as strings
loads_dumps(batches) ==
  [b \in DOMAIN batches |->
     [batches[b] EXCEPT !.papers =
        [k \in DOMAIN @ |->
           [@[k] EXCEPT !.relevance_score = str_of_enum("RelevanceScore", @),
                        !.methodology_type = str_of_enum("MethodologyType", @)]]]]

\* class RelevantPaper, as built at lines 144-155; found_paper is papers[total_papers]
RelevantPaper(paper, found_paper) ==
  [title |-> paper.title,
   authors |-> found_paper.authors,
   abstract |-> found_paper.abstract,
   arxiv_id |-> paper.paper_id,
   url |-> <<"https://arxiv.org/abs/", paper.paper_id>>,
   relevance_score |-> paper.relevance_score,
   methodology |-> paper.methodology_type,
   themes |-> [t \in DOMAIN paper.identified_themes |-> paper.identified_themes[t].theme_name],
   priority_rank |-> paper.priority_rank,
   detailed_review_recommended |-> paper.detailed_review_flag]

\* sorted(relevant_papers, key=priority_rank): ascending and stable
sorted_by_priority_rank(relevant_papers) ==
  Once(sorted_reverse([k \in DOMAIN relevant_papers |-> 0 - relevant_papers[k].priority_rank]),
       LAMBDA order : [p \in DOMAIN relevant_papers |-> relevant_papers[order[p]]])

\* lines 166-184, without the fields copied from the first two agents
ResearchOutput(run) ==
  [relevant_papers |-> sorted_by_priority_rank(run.relevant_papers),
   themes |-> SelectSeq(run.all_themes, LAMBDA theme : theme.frequency > 2),
   statistics |->
     [total_papers_found |-> run.total_papers,
      relevant_papers |-> Len(run.relevant_papers),
      high_relevance |-> run.high_relevance,
      medium_relevance |-> run.medium_relevance,
      top_themes |->
        Once(sorted_reverse([k \in DOMAIN run.all_themes |-> run.all_themes[k].frequency]),
             LAMBDA order :
               [p \in 1..Min(5, Len(run.all_themes)) |->
                  run.all_themes[order[p]].theme_name])]]

\* line 127: screen_abstracts raised; execute_research_workflow has no handler
execute_research_workflow_raises ==
  /\ UNCHANGED notOrchVars
  /\ workflow_run.pc = "screening"
  /\ scrPc = "raised"
  /\ workflow_run' = [workflow_run EXCEPT !.pc = "raised", !.output = output]
  /\ UNCHANGED scrVars

\* lines 127-135: screen_abstracts returned
execute_research_workflow_loads ==
  /\ UNCHANGED notOrchVars
  /\ workflow_run.pc = "screening"
  /\ scrPc = "returned"
  /\ workflow_run' =
       [workflow_run EXCEPT !.pc = "batch", !.screening_data = loads_dumps(output.batches),
                            !.batch = 1, !.paper = 1]
  /\ UNCHANGED scrVars

\* lines 137-139: the next batch is taken up
execute_research_workflow_batch ==
  /\ UNCHANGED notOrchVars
  /\ workflow_run.pc = "batch"
  /\ workflow_run.batch <= Len(workflow_run.screening_data)
  /\ workflow_run' =
       [workflow_run EXCEPT
          !.pc = "paper", !.paper = 1,
          !.all_themes = @ \o workflow_run.screening_data[workflow_run.batch].batch_themes]
  /\ UNCHANGED scrVars

\* lines 142-163: one paper of the batch.  papers[total_papers] is 0-based.
execute_research_workflow_paper ==
  /\ UNCHANGED notOrchVars
  /\ workflow_run.pc = "paper"
  /\ LET batch_papers == workflow_run.screening_data[workflow_run.batch].papers
         paper == batch_papers[workflow_run.paper]
         relevant == paper.relevance_score \in
                       { str_of_enum("RelevanceScore", "HIGH"),
                         str_of_enum("RelevanceScore", "MEDIUM") }
         high == paper.relevance_score = str_of_enum("RelevanceScore", "HIGH")
         last == workflow_run.paper = Len(batch_papers)
     IN workflow_run' =
          [workflow_run EXCEPT
             !.relevant_papers =
                IF relevant
                THEN Append(@, RelevantPaper(paper,
                                             workflow_run.papers[workflow_run.total_papers + 1]))
                ELSE @,
             !.high_relevance = IF relevant /\ high THEN @ + 1 ELSE @,
             !.medium_relevance = IF relevant /\ ~high THEN @ + 1 ELSE @,
             !.total_papers = @ + 1,
             !.paper = IF last THEN 1 ELSE @ + 1,
             !.batch = IF last THEN @ + 1 ELSE @,
             !.pc = IF last THEN "batch" ELSE "paper"]
  /\ UNCHANGED scrVars

\* lines 165-187
execute_research_workflow_returns ==
  /\ UNCHANGED notOrchVars
  /\ workflow_run.pc = "batch"
  /\ workflow_run.batch > Len(workflow_run.screening_data)
  /\ workflow_run' =
       [workflow_run EXCEPT !.pc = "returned", !.output = ResearchOutput(workflow_run)]
  /\ UNCHANGED scrVars

\* the call of screen_abstracts at line 127, with the papers the search found
InitOrchestrator ==
  /\ InitManagerIdle
  /\ InitReviewIdle
  /\ InitSearchIdle
  /\ \E found \in UNION { [1..n -> SearchPapers] : n \in 0..MaxDocs },
        keyword_data \in KeywordData :
       /\ workflow_run =
            [pc |-> "screening", papers |-> found, screening_data |-> <<>>,
             batch |-> 0, paper |-> 0, relevant_papers |-> <<>>, all_themes |-> <<>>,
             total_papers |-> 0, high_relevance |-> 0, medium_relevance |-> 0,
             output |-> <<>>]
       /\ args = screening_query(found, keyword_data)
  /\ package = "deep_researcher"
  /\ scrPc = "called"
  /\ all_batches = <<>> /\ batch_number = 0 /\ range_i = 0 /\ output = <<>>

NextOrchestrator ==
  \/ screen_validate
  \/ screen_batch
  \/ screen_return
  \/ execute_research_workflow_raises
  \/ execute_research_workflow_loads
  \/ execute_research_workflow_batch
  \/ execute_research_workflow_paper
  \/ execute_research_workflow_returns

SpecOrchestrator == InitOrchestrator /\ [][NextOrchestrator]_vars

\* C36: in the final output of execute_research_workflow every entry of
\* relevant_papers carries the authors and the abstract of the search result
\* whose arxiv id is the entry's arxiv_id.
C36_EntryCarriesItsOwnDocument ==
  workflow_run.pc = "returned"
    => \A k \in DOMAIN workflow_run.output.relevant_papers :
         \E d \in Range(workflow_run.papers) :
           /\ d.arxiv_id = workflow_run.output.relevant_papers[k].arxiv_id
           /\ d.authors = workflow_run.output.relevant_papers[k].authors
           /\ d.abstract = workflow_run.output.relevant_papers[k].abstract

-----------------------------------------------------------------------------
(* screen_papers, when every screen_paper returns *)

\* the id of a paper: its paper_id, its arxiv_id for a paper of a search batch
PaperId(paper) == IF "paper_id" \in paper.keys THEN paper.paper_id ELSE paper.arxiv_id

\* C39: when every screen_paper call succeeds, screen_papers returns one
\* result per input paper, in the order of the input list whatever the order
\* in which the calls ended: result k carries the paper id, the title and the
\* abstract of input paper k.
C39_ResultsFollowInputs ==
  (gathered.kind = "return" /\ tasks # <<>>)
    => /\ Len(gathered.results) = Len(tasks)
       /\ \A k \in DOMAIN tasks :
            /\ gathered.results[k].paper_id = PaperId(tasks[k].paper)
            /\ gathered.results[k].title = tasks[k].paper.title
            /\ gathered.results[k].abstract = tasks[k].paper.abstract

====
